---------------------------- MODULE Spec2Model ----------------------------
(***************************************************************************)
(* A model of the hybrid rocket engine simulator: the performance model    *)
(* (src/src/utils/simulationEngine.ts, both evolutions found in the file)  *)
(* and the simulator page that calls it.                                   *)
(*                                                                         *)
(* JavaScript numbers are modelled as decimal floating-point values of six *)
(* significant digits, with NaN and the two infinities: m * 10^e, the      *)
(* magnitude of m in 100000..999999 (or m = 0).  Every operation truncates *)
(* its exact result to six digits.  Unit conversions by powers of ten are  *)
(* therefore exact, and Math.sqrt and Math.pow return NaN exactly where    *)
(* the JavaScript functions do.                                            *)
(***************************************************************************)
EXTENDS Integers, Sequences, FiniteSets, TLC

(***************************************************************************)
(* Numbers                                                                 *)
(***************************************************************************)
NaN == [k |-> "nan", m |-> 0, e |-> 0]
PInf == [k |-> "inf", m |-> 1, e |-> 0]
NInf == [k |-> "inf", m |-> -1, e |-> 0]
Zero == [k |-> "fin", m |-> 0, e |-> 0]
One == [k |-> "fin", m |-> 100000, e |-> -5]
Two == [k |-> "fin", m |-> 200000, e |-> -5]
Half == [k |-> "fin", m |-> 500000, e |-> -6]

IsNaN(a) == a.k = "nan"
IsInf(a) == a.k = "inf"
IsFin(a) == a.k = "fin"

Abs(i) == IF i < 0 THEN -i ELSE i
Sgn(i) == IF i < 0 THEN -1 ELSE IF i > 0 THEN 1 ELSE 0

Pow10 == <<1, 10, 100, 1000, 10000, 100000, 1000000, 10000000, 100000000, 1000000000>>

\* 10^n, 0 <= n <= 9.
P10(n) == Pow10[n + 1]

\* The number of decimal digits of mag, 1 <= mag < 2^31.
Digits(mag) ==
  IF mag < 100000
  THEN (IF mag < 100 THEN (IF mag < 10 THEN 1 ELSE 2)
        ELSE IF mag < 1000 THEN 3 ELSE IF mag < 10000 THEN 4 ELSE 5)
  ELSE IF mag < 10000000 THEN (IF mag < 1000000 THEN 6 ELSE 7)
  ELSE IF mag < 100000000 THEN 8 ELSE IF mag < 1000000000 THEN 9 ELSE 10

\* sign * mag * 10^ex, mag of d digits, brought to six digits, truncating.
Norm(sign, mag, ex, d) ==
  IF mag = 0 THEN Zero
  ELSE IF d > 6
    THEN [k |-> "fin", m |-> sign * (mag \div P10(d - 6)), e |-> ex + d - 6]
    ELSE [k |-> "fin", m |-> sign * mag * P10(6 - d), e |-> ex + d - 6]

\* The number m * 10^e.
Num(m, e) == Norm(Sgn(m), Abs(m), e, Digits(Abs(m)))

FromInt(i) == Num(i, 0)

FNeg(a) == IF IsNaN(a) THEN NaN ELSE [a EXCEPT !.m = -a.m]

\* The first digits of ma * mb from t = ma * (mb \div 1000), u = ma * (mb % 1000).
MulHigh(t, u) == (t \div 100) + ((1000 * (t % 100) + u) \div 100000)

\* a * b
FMul(a, b) ==
  IF IsNaN(a) \/ IsNaN(b) THEN NaN
  ELSE IF IsInf(a) \/ IsInf(b)
    THEN IF a.m = 0 \/ b.m = 0 THEN NaN
         ELSE IF Sgn(a.m) * Sgn(b.m) > 0 THEN PInf ELSE NInf
  ELSE IF a.m = 0 \/ b.m = 0 THEN Zero
  ELSE Num(Sgn(a.m) * Sgn(b.m)
             * MulHigh(Abs(a.m) * (Abs(b.m) \div 1000), Abs(a.m) * (Abs(b.m) % 1000)),
           a.e + b.e + 5)

\* Two further steps of the long division of r by mb, three digits each.
DivTail(r, mb) ==
  ((r * 1000) \div mb) * 1000 + ((((r * 1000) % mb) * 1000) \div mb)

\* ma * 10^6 / mb by long division.
Quotient(ma, mb) == (ma \div mb) * 1000000 + DivTail(ma % mb, mb)

\* a / b
FDiv(a, b) ==
  IF IsNaN(a) \/ IsNaN(b) THEN NaN
  ELSE IF IsInf(a)
    THEN IF IsInf(b) THEN NaN
         ELSE IF Sgn(a.m) * (IF b.m < 0 THEN -1 ELSE 1) > 0 THEN PInf ELSE NInf
  ELSE IF IsInf(b) THEN Zero
  ELSE IF b.m = 0
    THEN IF a.m = 0 THEN NaN ELSE IF a.m > 0 THEN PInf ELSE NInf
  ELSE IF a.m = 0 THEN Zero
  ELSE Num(Sgn(a.m) * Sgn(b.m) * Quotient(Abs(a.m), Abs(b.m)), a.e - b.e - 6)

\* hi + lo for finite non-zero hi, lo with hi.e - lo.e = d <= 9, keeping u
\* more digits of hi.
AddShifted(hi, lo, d, u) ==
  Num(hi.m * P10(u) + Sgn(lo.m) * (Abs(lo.m) \div P10(d - u)), hi.e - u)

\* hi + lo for finite non-zero hi, lo with hi.e >= lo.e.
AddAligned(hi, lo) ==
  IF hi.e - lo.e > 9 THEN hi
  ELSE AddShifted(hi, lo, hi.e - lo.e, IF hi.e - lo.e < 3 THEN hi.e - lo.e ELSE 3)

\* a + b
FAdd(a, b) ==
  IF IsNaN(a) \/ IsNaN(b) THEN NaN
  ELSE IF IsInf(a)
    THEN IF IsInf(b) /\ a.m # b.m THEN NaN ELSE a
  ELSE IF IsInf(b) THEN b
  ELSE IF a.m = 0 THEN b
  ELSE IF b.m = 0 THEN a
  ELSE AddAligned(IF a.e >= b.e THEN a ELSE b, IF a.e >= b.e THEN b ELSE a)

FSub(a, b) == FAdd(a, FNeg(b))

\* a < b, a <= b, a = b as JavaScript compares numbers: false when either is NaN.
FLt(a, b) ==
  IF IsNaN(a) \/ IsNaN(b) THEN FALSE
  ELSE IF IsInf(a) THEN a.m < 0 /\ ~(IsInf(b) /\ b.m < 0)
  ELSE IF IsInf(b) THEN b.m > 0
  ELSE IF Sgn(a.m) # Sgn(b.m) THEN Sgn(a.m) < Sgn(b.m)
  ELSE IF a.m = 0 THEN FALSE
  ELSE IF a.m > 0 THEN a.e < b.e \/ (a.e = b.e /\ a.m < b.m)
  ELSE a.e > b.e \/ (a.e = b.e /\ a.m < b.m)

FEq(a, b) == ~IsNaN(a) /\ ~IsNaN(b) /\ a = b
FLe(a, b) == FLt(a, b) \/ FEq(a, b)

\* The integer part of a finite number, truncated toward zero (|a| < 10^9).
Trunc(a) ==
  IF a.m = 0 \/ a.e < -5 THEN 0
  ELSE IF a.e >= 0 THEN a.m * P10(a.e)
  ELSE Sgn(a.m) * (Abs(a.m) \div P10(-a.e))

IsInteger(a) == IsFin(a) /\ (a.e >= 0 \/ (a.e >= -5 /\ Abs(a.m) % P10(-a.e) = 0))

\* One step of Newton's iteration for the square root of the integer n.
NewtonStep(n, x) == (x + n \div x) \div 2

\* A first approximation of the square root of big * 10^ex, ex even.
SqrtSeed(big, ex) ==
  Num(NewtonStep(big, NewtonStep(big, NewtonStep(big, NewtonStep(big, 10000)))),
      ex \div 2)

\* One step of Newton's iteration for the square root of the number a.
SqrtRefine(a, x) == FMul(FAdd(x, FDiv(a, x)), Half)

\* Math.sqrt: NaN for a negative or NaN argument.
FSqrt(a) ==
  IF IsNaN(a) THEN NaN
  ELSE IF a.m < 0 THEN NaN
  ELSE IF IsInf(a) THEN PInf
  ELSE IF a.m = 0 THEN Zero
  ELSE SqrtRefine(a, SqrtRefine(a, SqrtSeed(IF a.e % 2 # 0 THEN a.m * 1000 ELSE a.m * 100,
                                            IF a.e % 2 # 0 THEN a.e - 3 ELSE a.e - 2)))

LN2 == [k |-> "fin", m |-> 693147, e |-> -6]
LN10 == [k |-> "fin", m |-> 230258, e |-> -5]
SQRT2 == [k |-> "fin", m |-> 141421, e |-> -5]
THIRD == [k |-> "fin", m |-> 333333, e |-> -6]
FIFTH == [k |-> "fin", m |-> 200000, e |-> -6]
SEVENTH == [k |-> "fin", m |-> 142857, e |-> -6]
NINTH == [k |-> "fin", m |-> 111111, e |-> -6]

\* u = m * 10^-5 in [1, 10) halved j times to fall in [1, 2): <<u / 2^j, j>>.
HalveBelow2(u) ==
  IF u.m < 200000 THEN <<u, 0>>
  ELSE IF u.m < 400000 THEN <<FMul(u, Half), 1>>
  ELSE IF u.m < 800000 THEN <<FMul(u, Num(25, -2)), 2>>
  ELSE <<FMul(u, Num(125, -3)), 3>>

\* c + z * rest
Horner(c, z, rest) == FAdd(c, FMul(z, rest))

\* 2 * atanh(z) = 2z (1 + z2/3 + z2^2/5 + z2^3/7 + z2^4/9), z2 = z * z.
LnSeries(z, z2) ==
  FMul(Two,
       FMul(z,
            Horner(One, z2,
              Horner(THIRD, z2, Horner(FIFTH, z2, Horner(SEVENTH, z2, NINTH))))))

LnOfZ(z) == LnSeries(z, FMul(z, z))

\* ln u for u near 1: z = (u - 1) / (u + 1).
LnNear1(u) == LnOfZ(FDiv(FSub(u, One), FAdd(u, One)))

\* ln (u * sqrt(2)^halves) for u near 1.
LnScaled(u, halves) == FAdd(LnNear1(u), FMul(FMul(FromInt(halves), Half), LN2))

\* ln (u * 2^j) for h = <<u, j>>, u in [1, 2).
LnReduced(h) ==
  LnScaled(IF FLt(SQRT2, h[1]) THEN FDiv(h[1], SQRT2) ELSE h[1],
           IF FLt(SQRT2, h[1]) THEN 2 * h[2] + 1 ELSE 2 * h[2])

\* Math.log of a finite a > 0.
FLn(a) ==
  FAdd(LnReduced(HalveBelow2([a EXCEPT !.e = -5])),
       FMul(FromInt(a.e + 5), LN10))

\* exp(s) = 1 + s (1 + s/2 (1 + s/3 (... (1 + s/7)))) for a small s.
ExpSeries(s) ==
  Horner(One, s,
    Horner(One, FMul(s, Half),
      Horner(One, FDiv(s, FromInt(3)),
        Horner(One, FDiv(s, FromInt(4)),
          Horner(One, FDiv(s, FromInt(5)),
            Horner(One, FDiv(s, FromInt(6)),
                   FAdd(One, FDiv(s, FromInt(7)))))))))

Square(x) == FMul(x, x)

\* v * 10^k
Scale10(v, k) == [v EXCEPT !.e = v.e + k]

\* The integer nearest to q.
Round(q) == Trunc(FAdd(q, IF q.m < 0 THEN FNeg(Half) ELSE Half))

\* exp(t) = 10^k * exp(r), r = t - k ln 10, exp(r) = exp(r / 4)^4.
ExpReduced(t, k) ==
  Scale10(Square(Square(ExpSeries(FMul(FSub(t, FMul(FromInt(k), LN10)),
                                       Num(25, -2))))),
          k)

\* Math.exp of a finite t, |t| < 10^8.
FExp(t) == ExpReduced(t, Round(FDiv(t, LN10)))

\* Math.pow(x, y) for a positive finite base and a finite exponent.
PowPositive(x, y) == FExp(FMul(y, FLn(x)))

\* p = |x|^y with the sign of x^y, for a finite x # 0 and an integer y or x > 0.
PowSigned(x, y, p) == IF x.m < 0 /\ Trunc(y) % 2 = 1 THEN FNeg(p) ELSE p

\* Math.pow(x, y) and x ** y, for a finite exponent y.
FPow(x, y) ==
  IF IsNaN(y) THEN NaN
  ELSE IF y.m = 0 THEN One
  ELSE IF IsNaN(x) THEN NaN
  ELSE IF y = Two THEN FMul(x, x)
  ELSE IF y = Half /\ IsFin(x) THEN FSqrt(x)
  ELSE IF IsInf(x)
    THEN IF y.m < 0 THEN Zero
         ELSE IF x.m < 0 /\ IsInteger(y) /\ Trunc(y) % 2 = 1 THEN NInf ELSE PInf
  ELSE IF x.m = 0 THEN (IF y.m > 0 THEN Zero ELSE PInf)
  ELSE IF x.m < 0 /\ ~IsInteger(y) THEN NaN
  ELSE PowSigned(x, y, PowPositive([x EXCEPT !.m = Abs(x.m)], y))

\* Math.min and Math.max of two numbers: NaN when either is NaN.
FMin(a, b) == IF IsNaN(a) \/ IsNaN(b) THEN NaN ELSE IF FLt(b, a) THEN b ELSE a
FMax(a, b) == IF IsNaN(a) \/ IsNaN(b) THEN NaN ELSE IF FLt(a, b) THEN b ELSE a

(***************************************************************************)
(* The performance model: what both evolutions share                       *)
(***************************************************************************)
PI == Num(314159, -5)

R == FromInt(8314)
g0 == Num(981, -2)
ambientPressure == Num(101325, -3)
numPoints == 50

\* Math.PI * Math.pow(diameter_mm / 2000, 2)
CircleArea(diameter_mm) == FMul(PI, FPow(FDiv(diameter_mm, FromInt(2000)), Two))

\* gamma / (gamma - 1)
ExpansionExponent(gam) == FDiv(gam, FSub(gam, One))

\* (gamma - 1) / gamma
PressureExponent(gam) == FDiv(FSub(gam, One), gam)

\* (gamma + 1) / (gamma - 1)
ThroatExponent(gam) == FDiv(FAdd(gam, One), FSub(gam, One))

\* (2 * gamma * R * chamberTemperature) / ((gamma - 1) * M)
velocityFactor(gam, molarMass, chamberTemperature) ==
  FDiv(FMul(FMul(Two, gam), FMul(R, chamberTemperature)),
       FMul(FSub(gam, One), molarMass))

\* ((2 * gamma ** 2) / (gamma - 1)) * ((2 / (gamma + 1)) ** ((gamma + 1) / (gamma - 1)))
\*   * (1 - pressureRatio ** ((gamma - 1) / gamma))
idealRadicand(gam, pressureRatio) ==
  FMul(FMul(FDiv(FMul(Two, FPow(gam, Two)), FSub(gam, One)),
            FPow(FDiv(Two, FAdd(gam, One)), ThroatExponent(gam))),
       FSub(One, FPow(pressureRatio, PressureExponent(gam))))

\* thrustCoefficient * chamberPressure * throatArea / 1000
ThrustOf(thrustCoefficient, chamberPressure, throatArea) ==
  FDiv(FMul(FMul(thrustCoefficient, chamberPressure), throatArea), FromInt(1000))

\* (i / (numPoints - 1)) * engineLength
SampleX(i, engineLength) ==
  FMul(FDiv(FromInt(i), FromInt(numPoints - 1)), engineLength)

\* chamberPressure * Math.pow(1 / areaRatio, gamma / (gamma - 1)) / 1000
nozzlePressure(gam, chamberPressure, areaRatio) ==
  FDiv(FMul(chamberPressure,
            FPow(FDiv(One, areaRatio), ExpansionExponent(gam))),
       FromInt(1000))

\* Math.pow(pressure * 1000 / chamberPressure, (gamma - 1) / gamma)
localExpansion(gam, pressure, chamberPressure) ==
  FPow(FDiv(FMul(pressure, FromInt(1000)), chamberPressure), PressureExponent(gam))

\* The nozzle branch of the loop once the local pressure and its expansion
\* term are known: <<x, pressure, temperature, velocity>>.
nozzleSample(x, pressure, expansion, factor, chamberTemperature) ==
  << x,
     pressure,
     FMul(chamberTemperature, expansion),
     FSqrt(FMul(factor, FSub(One, expansion))) >>

\* The three arrays after the loop has pushed every sample.
pushAll(points) ==
  [ pressureData |->
      SubSeq([i \in 1..numPoints |-> [x |-> points[i][1], y |-> points[i][2]]],
             1, numPoints),
    temperatureData |->
      SubSeq([i \in 1..numPoints |-> [x |-> points[i][1], y |-> points[i][3]]],
             1, numPoints),
    velocityData |->
      SubSeq([i \in 1..numPoints |-> [x |-> points[i][1], y |-> points[i][4]]],
             1, numPoints) ]

(***************************************************************************)
(* The performance model, propellant-tuned evolution                       *)
(*                                                                         *)
(* The body of runLiteSimulation is a sequence of const declarations.  It  *)
(* is modelled as a pipeline of operators, each taking the record l of the *)
(* locals declared so far and adding the ones it declares.                 *)
(***************************************************************************)
gamma == Num(122, -2)
M == Num(225, -1)
paraffin_density == FromInt(920)
regression_a == Num(1155, -7)
regression_n == Num(62, -2)
L_star == Num(15, -1)

MutTheoreticalChamberTemp(mixtureRatio) ==
  FSub(FAdd(FromInt(1600), FMul(mixtureRatio, FromInt(120))),
       FMul(FPow(FSub(mixtureRatio, Num(25, -1)), Two), FromInt(300)))

theoreticalChamberTemp(mixtureRatio) ==
  FSub(FAdd(FromInt(1600), FMul(mixtureRatio, FromInt(120))),
       FMul(FPow(FSub(mixtureRatio, Num(21, -1)), Two), FromInt(300)))

calculateThrustCoefficient(gam, pressureRatio, expansionRatio) ==
  LET term1 == FSqrt(idealRadicand(gam, pressureRatio))
      divergenceLoss == Num(98, -2)
  IN  FAdd(FMul(term1, divergenceLoss),
           FDiv(FMul(expansionRatio, FSub(pressureRatio, Zero)), FromInt(10)))

\* chamberPressure, throatArea, exitArea; engineLength, throatPosition.
inputUnits(p) ==
  [ chamberPressure |-> FMul(p.chamberPressure, FromInt(1000)),
    throatArea |-> CircleArea(p.nozzle.throat_diameter_mm),
    exitArea |-> CircleArea(p.nozzle.exit_diameter_mm),
    portDiameter |-> FDiv(p.grain.initial_port_diameter_mm, FromInt(1000)),
    engineLength |->
      FDiv(FAdd(p.combustionChamber.length_mm, p.nozzle.length_mm), FromInt(1000)),
    throatPosition |-> FDiv(p.combustionChamber.length_mm, FromInt(1000)) ]

\* An efficiency that is not clamped.
MutCombustionEfficiency(L_star_actual) == FDiv(L_star_actual, L_star)

\* Math.min(0.98, Math.max(0.85, L_star_actual / L_star))
combustionEfficiency(L_star_actual) ==
  FMin(Num(98, -2), FMax(Num(85, -2), FDiv(L_star_actual, L_star)))

\* geometry with the expansion ratio read from the separately supplied field.
MutGeometry(p, l) ==
  LET grainLength == FDiv(p.grain.length_mm, FromInt(1000))
      L_star_actual ==
        FDiv(FDiv(p.combustionChamber.chamber_volume_cc, FromInt(1000000)),
             l.throatArea)
  IN  l @@ [ expansionRatio |-> p.nozzleExpansionRatio,
             portArea |-> FMul(PI, FPow(FDiv(l.portDiameter, Two), Two)),
             grainBurnArea |-> FMul(FMul(PI, l.portDiameter), grainLength),
             combustionEfficiency |-> combustionEfficiency(L_star_actual) ]

\* expansionRatio, portArea, grainBurnArea, combustionEfficiency.
geometry(p, l) ==
  LET grainLength == FDiv(p.grain.length_mm, FromInt(1000))
      L_star_actual ==
        FDiv(FDiv(p.combustionChamber.chamber_volume_cc, FromInt(1000000)),
             l.throatArea)
  IN  l @@ [ expansionRatio |-> FDiv(l.exitArea, l.throatArea),
             portArea |-> FMul(PI, FPow(FDiv(l.portDiameter, Two), Two)),
             grainBurnArea |-> FMul(FMul(PI, l.portDiameter), grainLength),
             combustionEfficiency |-> combustionEfficiency(L_star_actual) ]

\* chamberTemperature, fuelMassFlowRate, thrustCoefficient, exitPressure.
combustion(p, l) ==
  LET estimatedOxMassFlux ==
        FSqrt(FDiv(FMul(l.chamberPressure, FromInt(2000)), l.portArea))
      regressionRate == FMul(regression_a, FPow(estimatedOxMassFlux, regression_n))
      pressureRatio == FDiv(ambientPressure, l.chamberPressure)
  IN  l @@ [ chamberTemperature |->
               FMul(theoreticalChamberTemp(p.mixtureRatio), l.combustionEfficiency),
             fuelMassFlowRate |->
               FMul(FMul(regressionRate, l.grainBurnArea), paraffin_density),
             thrustCoefficient |->
               calculateThrustCoefficient(gamma, pressureRatio, l.expansionRatio),
             exitPressure |->
               FMul(l.chamberPressure,
                    FPow(FDiv(One, l.expansionRatio), ExpansionExponent(gamma))) ]

\* A nozzle efficiency that ignores the contour.
MutNozzleEfficiency(contour_type) == Num(94, -2)

\* parameters.nozzle.contour_type === 'bell' ? 0.97 : 0.94
nozzleEfficiency(contour_type) ==
  IF contour_type = "bell" THEN Num(97, -2) ELSE Num(94, -2)

\* cStar, massFlowRate, thrust, specificImpulse.
performance(p, l) ==
  LET cStar_theoretical ==
        FSqrt(FDiv(FMul(FMul(gamma, R), l.chamberTemperature),
                   FMul(M, FPow(FDiv(FAdd(gamma, One), Two), ThroatExponent(gamma)))))
      oxidMassFlowRate == FMul(l.fuelMassFlowRate, p.mixtureRatio)
      theoreticalExitVelocity ==
        FSqrt(FMul(velocityFactor(gamma, M, l.chamberTemperature),
                   FSub(One, FPow(FDiv(l.exitPressure, l.chamberPressure),
                                  PressureExponent(gamma)))))
      exitVelocity ==
        FMul(theoreticalExitVelocity, nozzleEfficiency(p.nozzle.contour_type))
  IN  l @@ [ cStar |-> FMul(cStar_theoretical, l.combustionEfficiency),
             massFlowRate |-> FAdd(l.fuelMassFlowRate, oxidMassFlowRate),
             thrust |-> ThrustOf(l.thrustCoefficient, l.chamberPressure, l.throatArea),
             specificImpulse |-> FDiv(exitVelocity, g0) ]

\* A chamber branch whose pressure loss reaches 25 %.
MutChamberSample(x, chamberRatio, l) ==
  LET pressureLoss ==
        FMul(Num(25, -2), FSub(One, FPow(FSub(One, chamberRatio), Two)))
  IN  << x,
         FDiv(FMul(l.chamberPressure, FSub(One, pressureLoss)), FromInt(1000)),
         FMul(l.chamberTemperature,
              FAdd(Num(9, -1), FMul(Num(1, -1), FPow(FSub(One, chamberRatio), Half)))),
         FMul(FMul(l.cStar, FSqrt(chamberRatio)), Num(4, -1)) >>

\* The chamber branch of the loop: <<x, pressure, temperature, velocity>>.
chamberSample(x, chamberRatio, l) ==
  LET pressureLoss ==
        FMul(Num(15, -2), FSub(One, FPow(FSub(One, chamberRatio), Two)))
  IN  << x,
         FDiv(FMul(l.chamberPressure, FSub(One, pressureLoss)), FromInt(1000)),
         FMul(l.chamberTemperature,
              FAdd(Num(9, -1), FMul(Num(1, -1), FPow(FSub(One, chamberRatio), Half)))),
         FMul(FMul(l.cStar, FSqrt(chamberRatio)), Num(4, -1)) >>

\* localAreaRatio of the nozzle branch.
localAreaRatio(contour_type, nozzleRatio, expansionRatio) ==
  FAdd(One,
       FMul(IF contour_type = "bell" THEN FPow(nozzleRatio, Num(8, -1)) ELSE nozzleRatio,
            FSub(expansionRatio, One)))

\* The nozzle branch of the loop once the local pressure is known.
nozzleBranch(x, pressure, l) ==
  nozzleSample(x, pressure, localExpansion(gamma, pressure, l.chamberPressure),
               velocityFactor(gamma, M, l.chamberTemperature), l.chamberTemperature)

\* nozzleRatio of the nozzle branch.
nozzleRatioAt(x, l) ==
  FDiv(FSub(x, l.throatPosition), FSub(l.engineLength, l.throatPosition))

\* One pass of the loop at axial position x.
Point(x, p, l) ==
  IF FLt(x, l.throatPosition)
  THEN chamberSample(x, FDiv(x, l.throatPosition), l)
  ELSE nozzleBranch(
         x,
         nozzlePressure(
           gamma, l.chamberPressure,
           localAreaRatio(p.nozzle.contour_type, nozzleRatioAt(x, l), l.expansionRatio)),
         l)

\* The for loop: pass i = 0 .. numPoints - 1 pushes Point at x_i.
flowProfiles(p, l) ==
  l @@ pushAll(SubSeq([i \in 1..numPoints |-> Point(SampleX(i - 1, l.engineLength), p, l)],
                      1, numPoints))

\* The body of runLiteSimulation up to its return statement: the values of
\* its locals.
runLiteSimulation(p) ==
  flowProfiles(p, performance(p, combustion(p, geometry(p, inputUnits(p)))))

(***************************************************************************)
(* The performance model, generic evolution                                *)
(***************************************************************************)
gammaGeneric == Num(12, -1)
MGeneric == FromInt(20)

chamberTemperatureGeneric(chamberPressureMPa, mixtureRatio) ==
  FSub(FAdd(FAdd(FromInt(1300), FMul(chamberPressureMPa, FromInt(150))),
            FMul(mixtureRatio, FromInt(400))),
       FMul(FPow(FSub(mixtureRatio, Num(25, -1)), Two), FromInt(500)))

thrustCoefficientGeneric(gam, exitPressure, chamberPressure, expansionRatio) ==
  FAdd(FSqrt(idealRadicand(gam, FDiv(exitPressure, chamberPressure))),
       FDiv(FMul(expansionRatio, FSub(exitPressure, ambientPressure)),
            chamberPressure))

\* chamberPressure, throatArea, exitArea, grainBurnArea, chamberTemperature;
\* engineLength, throatPosition.
inputUnitsGeneric(p) ==
  [ chamberPressure |-> FMul(p.chamberPressure, FromInt(1000)),
    throatArea |-> CircleArea(p.nozzle.throat_diameter_mm),
    exitArea |-> CircleArea(p.nozzle.exit_diameter_mm),
    grainBurnArea |->
      FMul(FMul(FMul(Two, PI), FDiv(p.grain.initial_port_diameter_mm, FromInt(2000))),
           FDiv(p.grain.length_mm, FromInt(1000))),
    chamberTemperature |-> chamberTemperatureGeneric(p.chamberPressure, p.mixtureRatio),
    engineLength |->
      FDiv(FAdd(p.combustionChamber.length_mm, p.nozzle.length_mm), FromInt(1000)),
    throatPosition |-> FDiv(p.combustionChamber.length_mm, FromInt(1000)) ]

\* expansionRatio, cStar, fuelMassFlowRate.
geometryGeneric(p, l) ==
  LET regressionRate == FMul(Num(2, -4), FPow(l.chamberPressure, Half))
  IN  l @@ [ expansionRatio |-> FDiv(l.exitArea, l.throatArea),
             cStar |->
               FSqrt(FDiv(FDiv(FMul(FMul(gammaGeneric, R), l.chamberTemperature),
                               FPow(FDiv(FAdd(gammaGeneric, One), Two),
                                    ThroatExponent(gammaGeneric))),
                          MGeneric)),
             fuelMassFlowRate |->
               FMul(FMul(regressionRate, l.grainBurnArea), FromInt(920)) ]

\* exitPressure, massFlowRate.
combustionGeneric(p, l) ==
  LET oxidMassFlowRate == FMul(l.fuelMassFlowRate, p.mixtureRatio)
  IN  l @@ [ exitPressure |->
               FMul(l.chamberPressure,
                    FPow(FDiv(One, l.expansionRatio), ExpansionExponent(gammaGeneric))),
             massFlowRate |-> FAdd(l.fuelMassFlowRate, oxidMassFlowRate) ]

\* thrustCoefficient, specificImpulse.
nozzleFlowGeneric(p, l) ==
  LET exitVelocity ==
        FSqrt(FMul(velocityFactor(gammaGeneric, MGeneric, l.chamberTemperature),
                   FSub(One, FPow(FDiv(l.exitPressure, l.chamberPressure),
                                  PressureExponent(gammaGeneric)))))
  IN  l @@ [ thrustCoefficient |->
               thrustCoefficientGeneric(gammaGeneric, l.exitPressure, l.chamberPressure,
                                        l.expansionRatio),
             specificImpulse |-> FDiv(exitVelocity, g0) ]

\* thrust.
performanceGeneric(p, l) ==
  l @@ [ thrust |-> ThrustOf(l.thrustCoefficient, l.chamberPressure, l.throatArea) ]

\* The chamber branch of the loop: <<x, pressure, temperature, velocity>>.
chamberSampleGeneric(x, chamberRatio, l) ==
  << x,
     FDiv(FMul(l.chamberPressure,
               FAdd(Num(9, -1), FMul(Num(1, -1), FSub(One, chamberRatio)))),
          FromInt(1000)),
     FMul(l.chamberTemperature,
          FAdd(Num(95, -2), FMul(Num(5, -2), FSub(One, chamberRatio)))),
     FMul(FMul(l.cStar, chamberRatio), Num(3, -1)) >>

\* effectiveExpansion of the nozzle branch.
effectiveExpansion(nozzleRatio, expansionRatio) ==
  FAdd(One, FMul(nozzleRatio, FSub(expansionRatio, One)))

\* The nozzle branch of the loop once the local pressure is known.
nozzleBranchGeneric(x, pressure, l) ==
  nozzleSample(x, pressure,
               localExpansion(gammaGeneric, pressure, l.chamberPressure),
               velocityFactor(gammaGeneric, MGeneric, l.chamberTemperature),
               l.chamberTemperature)

\* One pass of the loop at axial position x.
PointGeneric(x, l) ==
  IF FLt(x, l.throatPosition)
  THEN chamberSampleGeneric(x, FDiv(x, l.throatPosition), l)
  ELSE nozzleBranchGeneric(
         x,
         nozzlePressure(
           gammaGeneric, l.chamberPressure,
           effectiveExpansion(nozzleRatioAt(x, l), l.expansionRatio)),
         l)

\* The for loop: pass i = 0 .. numPoints - 1 pushes PointGeneric at x_i.
flowProfilesGeneric(p, l) ==
  l @@ pushAll(SubSeq([i \in 1..numPoints |-> PointGeneric(SampleX(i - 1, l.engineLength), l)],
                      1, numPoints))

\* The body of the generic runLiteSimulation up to its return statement.
runLiteSimulationGeneric(p) ==
  flowProfilesGeneric(
    p, performanceGeneric(
         p, nozzleFlowGeneric(
              p, combustionGeneric(p, geometryGeneric(p, inputUnitsGeneric(p))))))

(***************************************************************************)
(* The parameter panel's default record                                    *)
(***************************************************************************)
defaultParameters ==
  [ chamberPressure |-> FromInt(10),
    mixtureRatio |-> Num(21, -1),
    throatDiameter |-> FromInt(50),
    chamberLength |-> FromInt(300),
    nozzleExpansionRatio |-> FromInt(16),
    propellantTemp |-> FromInt(298),
    grain |-> [ length_mm |-> FromInt(300),
                outer_diameter_mm |-> FromInt(75),
                initial_port_diameter_mm |-> FromInt(25),
                port_wall_thickness_mm |-> FromInt(15),
                port_axial_profile |-> "cylindrical",
                port_profile_taper_angle_deg |-> FromInt(2) ],
    combustionChamber |-> [ length_mm |-> FromInt(350),
                            inner_diameter_mm |-> FromInt(80),
                            wall_thickness_mm |-> FromInt(5),
                            chamber_volume_cc |-> FromInt(1200) ],
    injector |-> [ inj_plate_thickness |-> FromInt(8) ],
    nozzle |-> [ throat_diameter_mm |-> FromInt(50),
                 exit_diameter_mm |-> FromInt(200),
                 length_mm |-> FromInt(150),
                 divergence_angle_deg |-> FromInt(15),
                 contour_type |-> "conical" ] ]


(***************************************************************************)
(* The return statement of runLiteSimulation (both evolutions)             *)
(***************************************************************************)
\* A return statement that lets the creation time leak into a metric.
MutReturnResult(locals, p, id, timestamp) ==
  [ id |-> id,
    timestamp |-> timestamp,
    parameters |-> p,
    thrust |-> FAdd(locals.thrust, FromInt(timestamp)),
    specificImpulse |-> locals.specificImpulse,
    chamberTemperature |-> locals.chamberTemperature,
    exitPressure |-> locals.exitPressure,
    massFlowRate |-> locals.massFlowRate,
    thrustCoefficient |-> locals.thrustCoefficient,
    pressureData |-> locals.pressureData,
    temperatureData |-> locals.temperatureData,
    velocityData |-> locals.velocityData ]

\* return { id: Math.random()..., timestamp: Date.now(),
\*          parameters: { ...parameters }, thrust, ..., velocityData }
returnResult(locals, p, id, timestamp) ==
  [ id |-> id,
    timestamp |-> timestamp,
    parameters |-> p,
    thrust |-> locals.thrust,
    specificImpulse |-> locals.specificImpulse,
    chamberTemperature |-> locals.chamberTemperature,
    exitPressure |-> locals.exitPressure,
    massFlowRate |-> locals.massFlowRate,
    thrustCoefficient |-> locals.thrustCoefficient,
    pressureData |-> locals.pressureData,
    temperatureData |-> locals.temperatureData,
    velocityData |-> locals.velocityData ]

(***************************************************************************)
(* Inputs of the parameter panel                                           *)
(***************************************************************************)
MaxRuns == 2
MaxEdits == 2

\* The two evolutions of the engine found in simulationEngine.ts.
Variants == {"generic", "tuned"}

\* Texts a user can leave in the numeric fields.
ChamberPressureTexts == {"0.05", "5", "10"}
MixtureRatioTexts == {"2.1", "2.3", "2.5", "2.9", "3.3", "-2"}
NozzleExpansionRatioTexts == {"16", "8"}
ThroatDiameterTexts == {"50", "40"}
PortDiameterTexts == {"25", "80"}
ChamberLengthTexts == {"350", "-200", "339.9"}
ChamberVolumeTexts == {"1200", "2700", "5000"}
ContourTypes == {"conical", "bell"}

\* parseFloat(e.target.value)
parseFloat(text) ==
  CASE text = "0.05" -> Num(5, -2)
    [] text = "5" -> FromInt(5)
    [] text = "10" -> FromInt(10)
    [] text = "2.1" -> Num(21, -1)
    [] text = "2.3" -> Num(23, -1)
    [] text = "2.5" -> Num(25, -1)
    [] text = "2.9" -> Num(29, -1)
    [] text = "3.3" -> Num(33, -1)
    [] text = "25" -> FromInt(25)
    [] text = "80" -> FromInt(80)
    [] text = "350" -> FromInt(350)
    [] text = "-200" -> FromInt(-200)
    [] text = "-2" -> FromInt(-2)
    [] text = "16" -> FromInt(16)
    [] text = "8" -> FromInt(8)
    [] text = "50" -> FromInt(50)
    [] text = "40" -> FromInt(40)
    [] text = "339.9" -> Num(3399, -1)
    [] text = "1200" -> FromInt(1200)
    [] text = "2700" -> FromInt(2700)
    [] text = "5000" -> FromInt(5000)
    [] OTHER -> NaN

\* The <Input> elements wired to handleParameterChange, with their texts.
TopLevelInputs ==
  { <<"chamberPressure", t>> : t \in ChamberPressureTexts }
    \cup { <<"mixtureRatio", t>> : t \in MixtureRatioTexts }
    \cup { <<"nozzleExpansionRatio", t>> : t \in NozzleExpansionRatioTexts }
    \cup { <<"throatDiameter", t>> : t \in ThroatDiameterTexts }

\* The <Input> elements wired to handleNestedParameterChange, with their texts.
NestedInputs ==
  { <<"grain", "initial_port_diameter_mm", t>> : t \in PortDiameterTexts }
    \cup { <<"combustionChamber", "length_mm", t>> : t \in ChamberLengthTexts }
    \cup { <<"combustionChamber", "chamber_volume_cc", t>> : t \in ChamberVolumeTexts }

\* Every record the panel can hold.
AllParameters ==
  { [defaultParameters EXCEPT
       !.chamberPressure = parseFloat(pc),
       !.mixtureRatio = parseFloat(of),
       !.nozzleExpansionRatio = parseFloat(er),
       !.throatDiameter = parseFloat(td),
       !.grain.initial_port_diameter_mm = parseFloat(port),
       !.combustionChamber.length_mm = parseFloat(len),
       !.combustionChamber.chamber_volume_cc = parseFloat(vol),
       !.nozzle.contour_type = contour] :
      pc \in ChamberPressureTexts, of \in MixtureRatioTexts,
      er \in NozzleExpansionRatioTexts, td \in ThroatDiameterTexts,
      port \in PortDiameterTexts, len \in ChamberLengthTexts,
      vol \in ChamberVolumeTexts, contour \in ContourTypes }

\* Number of fields in which p differs from the defaults.
Changed(p) ==
  (IF p.chamberPressure = defaultParameters.chamberPressure THEN 0 ELSE 1)
  + (IF p.mixtureRatio = defaultParameters.mixtureRatio THEN 0 ELSE 1)
  + (IF p.nozzleExpansionRatio = defaultParameters.nozzleExpansionRatio THEN 0 ELSE 1)
  + (IF p.throatDiameter = defaultParameters.throatDiameter THEN 0 ELSE 1)
  + (IF p.grain = defaultParameters.grain THEN 0 ELSE 1)
  + (IF p.combustionChamber.length_mm = defaultParameters.combustionChamber.length_mm
     THEN 0 ELSE 1)
  + (IF p.combustionChamber.chamber_volume_cc
          = defaultParameters.combustionChamber.chamber_volume_cc
     THEN 0 ELSE 1)
  + (IF p.nozzle = defaultParameters.nozzle THEN 0 ELSE 1)

\* The records the panel can hold after at most MaxEdits change events.
ParameterSpace == { p \in AllParameters : Changed(p) <= MaxEdits }

\* runLiteSimulation's body, evaluated once per evolution and input.
engine ==
  [ v \in Variants |->
      [ p \in ParameterSpace |->
          IF v = "tuned" THEN runLiteSimulation(p) ELSE runLiteSimulationGeneric(p) ] ]

(***************************************************************************)
(* The page: ParameterPanel and Index                                      *)
(***************************************************************************)
VARIABLES
  variant,          \* which evolution of simulationEngine.ts is built
  parameters,       \* ParameterPanel: useState(defaultParameters)
  edits,            \* change events handled so far
  isSimulating,     \* Index: useState(false)
  pending,          \* parameters captured by a call waiting on its timer
  results,          \* Index: useState([])
  selectedResult,   \* Index: useState(null), <<>> for null
  now,              \* Date.now(), in timer periods
  objects,          \* which nested objects the panel's record, the pending
                    \* call's argument and each result's parameters refer to
  backendAvailable, \* later Index: useState(null), <<>> for null
  probe,            \* the checkBackendStatus call made on mount
  advanced,         \* a call of runAdvancedSimulation
  toast,            \* title of the toast shown last, "none" before the first
  config,           \* OptimizationPanel: useState(DEFAULT_CONFIG)
  selectedStudy,    \* OptimizationPanel: useState('')
  isOptimizing,     \* Optimization: useState(false)
  activeStudyId,    \* Optimization: useState(null), <<>> for null
  optimizationResults, \* Optimization: useState(null), <<>> for null
  availableStudies, \* Optimization: useState([])
  requests,         \* Optimization: the handler calls made, in the order started
  call              \* simulationApi: the wrapper call made by a direct caller
                    \* that settled last

vars ==
  <<variant, parameters, edits, isSimulating, pending, results, selectedResult, now,
    objects, backendAvailable, probe, advanced, toast, config, selectedStudy,
    isOptimizing, activeStudyId, optimizationResults, availableStudies, requests,
    call>>

\* The state of the later Index page and of the service client.
serviceVars == <<backendAvailable, probe, advanced>>

\* The state of the Optimization page and of its panel.
studyVars ==
  <<config, selectedStudy, isOptimizing, activeStudyId, optimizationResults,
    availableStudies, requests>>

\* What a direct caller of the wrappers of simulationApi has seen.
clientVars == <<call>>

\* The state of the parameter panel.
panelVars == <<variant, parameters, edits>>

\* The state of a simulation run and of the history.
runVars == <<isSimulating, pending, results, selectedResult, now, objects>>

\* The fields of RocketParameters that hold an object.
Categories == {"grain", "combustionChamber", "injector", "nozzle"}

\* The objects some record still refers to; 0 is the module-level default
\* object of each category.
UsedObjects ==
  {0} \cup { objects.panel[c] : c \in Categories }
      \cup { objects.pending[i][c] : i \in DOMAIN objects.pending, c \in Categories }
      \cup { objects.results[k][c] : k \in DOMAIN objects.results, c \in Categories }

\* The object an object literal { ...parameters[category], [key]: value }
\* creates: one no record refers to.
newObject ==
  CHOOSE n \in 1..Cardinality(UsedObjects) :
    n \notin UsedObjects /\ \A m \in 1..(n - 1) : m \in UsedObjects

Ids == {"a", "b"}

\* DEFAULT_CONFIG of the optimization panel: its objectives and trial count.
DEFAULT_CONFIG ==
  [ objectives |-> << [ metric |-> "thrust", direction |-> "maximize", weight |-> One ],
                      [ metric |-> "specificImpulse", direction |-> "maximize",
                        weight |-> One ] >>,
    n_trials |-> 50 ]

\* The Optimization page before any of its handlers has run, and no wrapper
\* called yet.
NoStudy ==
  /\ config = DEFAULT_CONFIG
  /\ selectedStudy = ""
  /\ isOptimizing = FALSE
  /\ activeStudyId = <<>>
  /\ optimizationResults = <<>>
  /\ availableStudies = <<>>
  /\ requests = <<>>
  /\ call = [ wrapper |-> "none" ]

Init ==
  /\ variant \in Variants
  /\ parameters = defaultParameters
  /\ edits = 0
  /\ isSimulating = FALSE
  /\ pending = <<>>
  /\ results = <<>>
  /\ selectedResult = <<>>
  /\ now = 0
  /\ objects = [ panel |-> [c \in Categories |-> 0], pending |-> <<>>, results |-> <<>> ]
  /\ backendAvailable = <<>>
  /\ probe = [ answer |-> "none", promise |-> "unmounted" ]
  /\ advanced = [ pc |-> "idle", waited |-> 0, error |-> "none" ]
  /\ toast = "none"
  /\ NoStudy

\* { ...parameters, [key]: v }: a new record that refers to the same nested
\* objects.
handleParameterChange(key, text) ==
  /\ edits < MaxEdits
  /\ parameters' = [parameters EXCEPT ![key] = parseFloat(text)]
  /\ edits' = edits + 1
  /\ UNCHANGED <<variant, isSimulating, pending, results, selectedResult, now, objects>>
  /\ UNCHANGED <<serviceVars, toast>>
  /\ UNCHANGED <<studyVars, clientVars>>

\* A handler that assigns parameters[category][key] in place: every record
\* that refers to the same nested object sees the new value.
MutHandleNestedParameterChange(category, key, text) ==
  /\ edits < MaxEdits
  /\ parameters' = [parameters EXCEPT ![category][key] = parseFloat(text)]
  /\ results' =
       [ k \in DOMAIN results |->
           IF objects.results[k][category] = objects.panel[category]
           THEN [results[k] EXCEPT !.parameters[category][key] = parseFloat(text)]
           ELSE results[k] ]
  /\ pending' =
       [ i \in DOMAIN pending |->
           IF objects.pending[i][category] = objects.panel[category]
           THEN [pending[i] EXCEPT ![category][key] = parseFloat(text)]
           ELSE pending[i] ]
  /\ edits' = edits + 1
  /\ UNCHANGED <<variant, isSimulating, selectedResult, now, objects>>
  /\ UNCHANGED <<serviceVars, toast>>
  /\ UNCHANGED <<studyVars, clientVars>>

\* { ...parameters, [category]: { ...parameters[category], [key]: v } }: a
\* new record with a new nested object for category.
handleNestedParameterChange(category, key, text) ==
  /\ edits < MaxEdits
  /\ parameters' = [parameters EXCEPT ![category][key] = parseFloat(text)]
  /\ objects' = [objects EXCEPT !.panel[category] = newObject]
  /\ edits' = edits + 1
  /\ UNCHANGED <<variant, isSimulating, pending, results, selectedResult, now>>
  /\ UNCHANGED <<serviceVars, toast>>
  /\ UNCHANGED <<studyVars, clientVars>>

handleSelectChange(category, key, value) ==
  /\ edits < MaxEdits
  /\ parameters' = [parameters EXCEPT ![category][key] = value]
  /\ objects' = [objects EXCEPT !.panel[category] = newObject]
  /\ edits' = edits + 1
  /\ UNCHANGED <<variant, isSimulating, pending, results, selectedResult, now>>
  /\ UNCHANGED <<serviceVars, toast>>
  /\ UNCHANGED <<studyVars, clientVars>>

\* A state update that replaces the history by the new result.
MutSetResults(prev, result) == <<result>>

\* setResults(prev => [...prev, result])
setResults(prev, result) == Append(prev, result)

\* handleRunClick -> handleRunSimulation up to the await inside
\* runLiteSimulation: the button is disabled while isSimulating.
handleRunClick ==
  /\ ~isSimulating
  /\ Len(results) < MaxRuns
  /\ isSimulating' = TRUE
  /\ pending' = <<parameters>>
  /\ objects' = [objects EXCEPT !.pending = <<objects.panel>>]
  /\ UNCHANGED <<variant, parameters, edits, results, selectedResult, now>>
  /\ UNCHANGED <<serviceVars, toast>>
  /\ UNCHANGED <<studyVars, clientVars>>

\* The 1500 ms timer fires: runLiteSimulation resumes, computes and returns
\* (parameters: { ...parameters } refers to the argument's nested objects);
\* handleRunSimulation resumes, stores the result and runs its finally block.
timerFires(id) ==
  /\ pending # <<>>
  /\ LET p == pending[1]
         result == returnResult(engine[variant][p], p, id, now + 1)
     IN  /\ results' = setResults(results, result)
         /\ selectedResult' = <<result>>
  /\ isSimulating' = FALSE
  /\ pending' = <<>>
  /\ objects' = [objects EXCEPT !.results = Append(@, objects.pending[1]),
                                !.pending = <<>>]
  /\ now' = now + 1
  /\ UNCHANGED <<variant, parameters, edits>>
  /\ UNCHANGED serviceVars
  /\ toast' = "Simulation completed"
  /\ UNCHANGED <<studyVars, clientVars>>

\* A row click that clears the selection when the row is already selected.
MutHandleSelectResult(i) ==
  /\ selectedResult' = IF selectedResult = <<results[i]>> THEN <<>> ELSE <<results[i]>>
  /\ UNCHANGED <<variant, parameters, edits, isSimulating, pending, results, now,
                 objects>>
  /\ UNCHANGED <<serviceVars, toast>>
  /\ UNCHANGED <<studyVars, clientVars>>

\* A click on row i of the results table: onSelectResult(result).
handleSelectResult(i) ==
  /\ selectedResult' = <<results[i]>>
  /\ UNCHANGED <<variant, parameters, edits, isSimulating, pending, results, now,
                 objects>>
  /\ UNCHANGED <<serviceVars, toast>>
  /\ UNCHANGED <<studyVars, clientVars>>

Next ==
  \/ \E in \in TopLevelInputs : handleParameterChange(in[1], in[2])
  \/ \E in \in NestedInputs : handleNestedParameterChange(in[1], in[2], in[3])
  \/ \E value \in ContourTypes : handleSelectChange("nozzle", "contour_type", value)
  \/ handleRunClick
  \/ \E id \in Ids : timerFires(id)
  \/ \E i \in DOMAIN results : handleSelectResult(i)

Spec == Init /\ [][Next]_vars

(***************************************************************************)
(* The later page (Index with the backend probe) and the service client    *)
(***************************************************************************)
\* How long a caller is prepared to wait for the service, in clock ticks.
Timeout == 2

\* What a fetch can settle with: a response with an OK status, a response
\* with another status, or a rejection (the service cannot be reached).
Answers == {"ok", "notOk", "unreachable"}

\* What response.json() can settle with: an object without a detail field,
\* an object with one, or a rejection because the body is not JSON.
Bodies == {"parsed", "detail", "malformed"}

\* How a call of runSimulation can settle.
RunOutcomes == {"result", "error"}

\* A checkBackendStatus whose catch block rethrows.
MutCheckBackendStatus(answer) ==
  IF answer = "unreachable"
  THEN [ kind |-> "rejected", value |-> FALSE ]
  ELSE [ kind |-> "resolved", value |-> answer = "ok" ]

\* checkBackendStatus once its fetch has settled: return response.ok, or
\* return false from the catch block.
checkBackendStatus(answer) ==
  IF answer = "unreachable"
  THEN [ kind |-> "resolved", value |-> FALSE ]
  ELSE [ kind |-> "resolved", value |-> answer = "ok" ]

\* The page after mount: useEffect has called checkBackend, which awaits
\* checkBackendStatus, which awaits its fetch.
InitService ==
  /\ variant \in Variants
  /\ parameters = defaultParameters
  /\ edits = 0
  /\ isSimulating = FALSE
  /\ pending = <<>>
  /\ results = <<>>
  /\ selectedResult = <<>>
  /\ now = 0
  /\ objects = [ panel |-> [c \in Categories |-> 0], pending |-> <<>>, results |-> <<>> ]
  /\ backendAvailable = <<>>
  /\ probe = [ answer |-> "none", promise |-> "pending" ]
  /\ advanced = [ pc |-> "idle", waited |-> 0, error |-> "none" ]
  /\ toast = "none"
  /\ NoStudy

\* The probe's fetch settles: checkBackendStatus settles and checkBackend
\* resumes, in its try block or in its catch block.
checkBackend(answer) ==
  /\ probe.promise = "pending"
  /\ probe' = [ answer |-> answer, promise |-> checkBackendStatus(answer).kind ]
  /\ backendAvailable' =
       IF checkBackendStatus(answer).kind = "resolved"
       THEN <<checkBackendStatus(answer).value>>
       ELSE <<FALSE>>
  /\ toast' =
       IF checkBackendStatus(answer).kind = "resolved"
       THEN IF checkBackendStatus(answer).value
            THEN "Advanced simulation available"
            ELSE "Using simplified simulation"
       ELSE toast
  /\ UNCHANGED <<advanced, panelVars, runVars>>
  /\ UNCHANGED <<studyVars, clientVars>>

\* A handleRunSimulation that clears isSimulating at the end of its try
\* block instead of in a finally block.
MutRunSimulationSettles(outcome, id) ==
  /\ pending # <<>>
  /\ IF outcome = "result"
     THEN LET p == pending[1]
              result == returnResult(engine[variant][p], p, id, now + 1)
          IN  /\ results' = setResults(results, result)
              /\ selectedResult' = <<result>>
              /\ objects' = [objects EXCEPT !.results = Append(@, objects.pending[1]),
                                            !.pending = <<>>]
              /\ now' = now + 1
              /\ toast' = "Simulation completed"
              /\ isSimulating' = FALSE
     ELSE /\ UNCHANGED <<results, selectedResult, now, isSimulating>>
          /\ objects' = [objects EXCEPT !.pending = <<>>]
          /\ toast' = "Simulation failed"
  /\ pending' = <<>>
  /\ UNCHANGED <<panelVars, serviceVars>>
  /\ UNCHANGED <<studyVars, clientVars>>

\* The call of runSimulation settles: handleRunSimulation resumes in its try
\* block (setResults, setSelectedResult) or in its catch block, then runs its
\* finally block.
runSimulationSettles(outcome, id) ==
  /\ pending # <<>>
  /\ IF outcome = "result"
     THEN LET p == pending[1]
              result == returnResult(engine[variant][p], p, id, now + 1)
          IN  /\ results' = setResults(results, result)
              /\ selectedResult' = <<result>>
              /\ objects' = [objects EXCEPT !.results = Append(@, objects.pending[1]),
                                            !.pending = <<>>]
              /\ now' = now + 1
              /\ toast' = "Simulation completed"
     ELSE /\ UNCHANGED <<results, selectedResult, now>>
          /\ objects' = [objects EXCEPT !.pending = <<>>]
          /\ toast' = "Simulation failed"
  /\ isSimulating' = FALSE
  /\ pending' = <<>>
  /\ UNCHANGED <<panelVars, serviceVars>>
  /\ UNCHANGED <<studyVars, clientVars>>

\* runAdvancedSimulation is called: it starts its fetch and awaits it.
runAdvancedSimulation ==
  /\ advanced.pc \in {"idle", "returned", "threw"}
  /\ advanced' = [ pc |-> "fetch", waited |-> 0, error |-> "none" ]
  /\ UNCHANGED <<backendAvailable, probe, panelVars, runVars, toast>>
  /\ UNCHANGED <<studyVars, clientVars>>

\* The fetch of runAdvancedSimulation settles: an OK response is read as the
\* result, another response is read for its error detail, a rejection is
\* caught, logged and rethrown.
fetchSettles(answer) ==
  /\ advanced.pc = "fetch"
  /\ advanced' =
       CASE answer = "ok" -> [ pc |-> "data", waited |-> 0, error |-> "none" ]
         [] answer = "notOk" -> [ pc |-> "errorData", waited |-> 0, error |-> "none" ]
         [] OTHER -> [ pc |-> "threw", waited |-> 0, error |-> "TypeError" ]
  /\ UNCHANGED <<backendAvailable, probe, panelVars, runVars, toast>>
  /\ UNCHANGED <<studyVars, clientVars>>

\* response.json() settles: the data is returned, or an Error with the
\* detail is thrown, or the body cannot be parsed; every error is caught,
\* logged and rethrown.
jsonSettles(body) ==
  /\ advanced.pc \in {"data", "errorData"}
  /\ advanced' =
       CASE body = "malformed" -> [ pc |-> "threw", waited |-> 0, error |-> "SyntaxError" ]
         [] advanced.pc = "data" -> [ pc |-> "returned", waited |-> 0, error |-> "none" ]
         [] OTHER -> [ pc |-> "threw", waited |-> 0, error |-> "Error" ]
  /\ UNCHANGED <<backendAvailable, probe, panelVars, runVars, toast>>
  /\ UNCHANGED <<studyVars, clientVars>>

\* The clock advances while runAdvancedSimulation awaits the service.
tick ==
  /\ advanced.pc \in {"fetch", "data", "errorData"}
  /\ advanced.waited <= Timeout
  /\ advanced' = [advanced EXCEPT !.waited = @ + 1]
  /\ UNCHANGED <<backendAvailable, probe, panelVars, runVars, toast>>
  /\ UNCHANGED <<studyVars, clientVars>>

NextService ==
  \/ \E answer \in Answers : checkBackend(answer)
  \/ handleRunClick
  \/ \E outcome \in RunOutcomes, id \in Ids : runSimulationSettles(outcome, id)
  \/ \E i \in DOMAIN results : handleSelectResult(i)
  \/ runAdvancedSimulation
  \/ \E answer \in Answers : fetchSettles(answer)
  \/ \E body \in Bodies : jsonSettles(body)
  \/ tick

SpecService == InitService /\ [][NextService]_vars

\* The later page when every call of runSimulation settles: the promise the
\* handler awaits is resolved or rejected, and the event loop then resumes
\* the handler.
FairService ==
  SpecService
    /\ WF_vars(\E outcome \in RunOutcomes, id \in Ids : runSimulationSettles(outcome, id))

(***************************************************************************)
(* The optimization panel: the objectives of its configuration             *)
(***************************************************************************)
MaxObjectives == 3

\* The <SelectItem> values of an objective's metric and direction.
Metrics == {"thrust", "specificImpulse", "massFlowRate"}
Directions == {"maximize", "minimize"}

\* Texts a user can leave in an objective's weight field.
WeightTexts == {"0.5", ""}

\* parseFloat(e.target.value) of the weight field.
parseWeight(text) == IF text = "0.5" THEN Half ELSE NaN

\* The change events of the objective at one row: field and new value.
ObjectiveInputs ==
  { <<"metric", m>> : m \in Metrics }
    \cup { <<"direction", d>> : d \in Directions }
    \cup { <<"weight", parseWeight(t)>> : t \in WeightTexts }

\* The page as the optimization panel is mounted.
InitPanel ==
  /\ variant \in Variants
  /\ parameters = defaultParameters
  /\ edits = 0
  /\ isSimulating = FALSE
  /\ pending = <<>>
  /\ results = <<>>
  /\ selectedResult = <<>>
  /\ now = 0
  /\ objects = [ panel |-> [c \in Categories |-> 0], pending |-> <<>>, results |-> <<>> ]
  /\ backendAvailable = <<>>
  /\ probe = [ answer |-> "none", promise |-> "unmounted" ]
  /\ advanced = [ pc |-> "idle", waited |-> 0, error |-> "none" ]
  /\ toast = "none"
  /\ NoStudy

\* Everything but the panel's configuration.
notConfig ==
  <<panelVars, runVars, serviceVars, toast, clientVars, selectedStudy, isOptimizing,
    activeStudyId, optimizationResults, availableStudies, requests>>

\* newObjectives[index] = { ...newObjectives[index], [field]: value }, for
\* the row at the 0-based index.
handleObjectiveChange(index, field, value) ==
  /\ config' = [config EXCEPT !.objectives[index + 1][field] = value]
  /\ UNCHANGED notConfig

\* addObjective appends a specific-impulse objective.
addObjective ==
  /\ Len(config.objectives) < MaxObjectives
  /\ config' = [config EXCEPT !.objectives =
                  Append(@, [ metric |-> "specificImpulse", direction |-> "maximize",
                              weight |-> One ])]
  /\ UNCHANGED notConfig

\* A removeObjective without the guard on the length.
MutRemoveObjective(index) ==
  /\ config' = [config EXCEPT !.objectives =
                  SubSeq(@, 1, index) \o SubSeq(@, index + 2, Len(@))]
  /\ UNCHANGED notConfig

\* removeObjective: return when one objective is left, else splice(index, 1).
removeObjective(index) ==
  /\ IF Len(config.objectives) <= 1
     THEN UNCHANGED config
     ELSE config' = [config EXCEPT !.objectives =
                       SubSeq(@, 1, index) \o SubSeq(@, index + 2, Len(@))]
  /\ UNCHANGED notConfig

\* The rows rendered for the objectives, by 0-based index.
Rows == 0..(Len(config.objectives) - 1)

NextPanel ==
  \/ \E index \in Rows, in \in ObjectiveInputs : handleObjectiveChange(index, in[1], in[2])
  \/ addObjective
  \/ \E index \in Rows : removeObjective(index)

SpecPanel == InitPanel /\ [][NextPanel]_vars

(***************************************************************************)
(* The service client: the wrappers of simulationApi and what a caller     *)
(* renders from their results                                              *)
(***************************************************************************)
MaxTrials == 2

Wrappers ==
  { "runAdvancedSimulation", "createOptimizationStudy", "runOptimization",
    "continueOptimization", "getOptimizationResults", "listOptimizationStudies" }

\* The wrappers whose promise is of an OptimizationResult.
ResultWrappers == { "runOptimization", "continueOptimization", "getOptimizationResults" }

\* The message of the Error thrown for a response without a detail.
fallbackMessage(wrapper) ==
  CASE wrapper = "runAdvancedSimulation" -> "Simulation failed"
    [] wrapper = "createOptimizationStudy" -> "Failed to create optimization study"
    [] wrapper = "runOptimization" -> "Optimization failed"
    [] wrapper = "continueOptimization" -> "Failed to continue optimization"
    [] wrapper = "getOptimizationResults" -> "Failed to get optimization results"
    [] wrapper = "listOptimizationStudies" -> "Failed to list optimization studies"

\* How the promise of a wrapper settles once its fetch has settled with the
\* answer and response.json() with the body: the same try / catch in every
\* wrapper, the caught error logged and rethrown.
apiCall(wrapper, answer, body) ==
  IF answer = "unreachable"
  THEN [ kind |-> "rejected", error |-> "TypeError", message |-> "Failed to fetch" ]
  ELSE IF body = "malformed"
  THEN [ kind |-> "rejected", error |-> "SyntaxError", message |-> "Unexpected token" ]
  ELSE IF answer = "ok"
  THEN [ kind |-> "resolved", error |-> "none", message |-> "none" ]
  ELSE [ kind |-> "rejected", error |-> "Error",
         message |-> IF body = "detail" THEN "detail" ELSE fallbackMessage(wrapper) ]

\* The values a trial of the service can carry.
TrialValues ==
  { [ thrust |-> t, specificImpulse |-> i ] :
      t \in {FromInt(-5), Zero, FromInt(3)}, i \in {Zero, FromInt(200)} }

\* The trial histories of at most MaxTrials trials.
Histories ==
  UNION { [ 1..n -> { [ values |-> v ] : v \in TrialValues } ] : n \in 0..MaxTrials }

\* if (value && value > best) best = value
betterOf(best, value) ==
  IF ~IsNaN(value) /\ value.m # 0 /\ FLt(best, value) THEN value ELSE best

\* The loop for (let i = 0; i <= index; i++) over the trials before and at
\* the 0-based index, for one metric; best starts at -Infinity.
RECURSIVE bestUpTo(_, _, _)
bestUpTo(metric, trials_history, count) ==
  IF count = 0
  THEN NInf
  ELSE betterOf(bestUpTo(metric, trials_history, count - 1),
                trials_history[count].values[metric])

\* convergenceData of OptimizationResults.
convergenceData(trials_history) ==
  [ k \in DOMAIN trials_history |->
      [ trial |-> k,
        thrust |-> trials_history[k].values.thrust,
        specificImpulse |-> trials_history[k].values.specificImpulse,
        bestThrust |-> bestUpTo("thrust", trials_history, k),
        bestIsp |-> bestUpTo("specificImpulse", trials_history, k) ] ]

\* No wrapper has been called yet.
InitClient ==
  /\ variant \in Variants
  /\ parameters = defaultParameters
  /\ edits = 0
  /\ isSimulating = FALSE
  /\ pending = <<>>
  /\ results = <<>>
  /\ selectedResult = <<>>
  /\ now = 0
  /\ objects = [ panel |-> [c \in Categories |-> 0], pending |-> <<>>, results |-> <<>> ]
  /\ backendAvailable = <<>>
  /\ probe = [ answer |-> "none", promise |-> "unmounted" ]
  /\ advanced = [ pc |-> "idle", waited |-> 0, error |-> "none" ]
  /\ toast = "none"
  /\ NoStudy

\* A call of a wrapper settles; when it returns an OptimizationResult with
\* the trial history given, the caller renders its convergence data.
callSettles(wrapper, answer, body, trials_history) ==
  /\ call' =
       [ wrapper |-> wrapper,
         answer |-> answer,
         body |-> body,
         outcome |-> apiCall(wrapper, answer, body),
         trials_history |->
           IF wrapper \in ResultWrappers /\ apiCall(wrapper, answer, body).kind = "resolved"
           THEN trials_history ELSE <<>>,
         convergenceData |->
           IF wrapper \in ResultWrappers /\ apiCall(wrapper, answer, body).kind = "resolved"
           THEN convergenceData(trials_history) ELSE <<>> ]
  /\ UNCHANGED <<panelVars, runVars, serviceVars, toast, studyVars>>

NextClient ==
  \E wrapper \in Wrappers, answer \in Answers, body \in Bodies, trials_history \in Histories :
    callSettles(wrapper, answer, body, trials_history)

SpecClient == InitClient /\ [][NextClient]_vars

(***************************************************************************)
(* The Optimization page with its panel: the status probe at mount, the    *)
(* four handlers the panel's buttons call, and the requests in flight      *)
(***************************************************************************)

\* The most handler calls that reach the service, the mount's list included.
MaxRequests == 3

\* The study ids the service hands out.
StudyIds == {"s1", "s2"}

\* The lists of studies listOptimizationStudies can answer with.
StudyLists == { <<>>, <<"s1">>, <<"s1", "s2">> }

\* The page after mount: useEffect has called checkBackend, which awaits
\* checkBackendStatus.
InitOptimization ==
  /\ variant \in Variants
  /\ parameters = defaultParameters
  /\ edits = 0
  /\ isSimulating = FALSE
  /\ pending = <<>>
  /\ results = <<>>
  /\ selectedResult = <<>>
  /\ now = 0
  /\ objects = [ panel |-> [c \in Categories |-> 0], pending |-> <<>>, results |-> <<>> ]
  /\ backendAvailable = <<>>
  /\ probe = [ answer |-> "none", promise |-> "pending" ]
  /\ advanced = [ pc |-> "idle", waited |-> 0, error |-> "none" ]
  /\ toast = "none"
  /\ NoStudy

\* What no step of the Optimization page changes.
notOptimization == <<panelVars, runVars, advanced, config, call>>

\* A handler call that has started to await a wrapper: pc is "api" while it
\* awaits its own wrapper, "list" while it awaits loadStudies, and the kind
\* of the settled promise after that.
started(handler, study_id, pc) == [ handler |-> handler, study |-> study_id, pc |-> pc ]

\* checkBackend of the page resumes once checkBackendStatus has settled:
\* setBackendAvailable, then loadStudies when available, else the toast; the
\* catch block sets false.
checkBackendOptimization(answer) ==
  /\ probe.promise = "pending"
  /\ probe' = [ answer |-> answer, promise |-> checkBackendStatus(answer).kind ]
  /\ IF checkBackendStatus(answer).kind = "resolved"
     THEN /\ backendAvailable' = <<checkBackendStatus(answer).value>>
          /\ IF checkBackendStatus(answer).value
             THEN /\ requests' = Append(requests, started("checkBackend", "", "list"))
                  /\ UNCHANGED toast
             ELSE /\ toast' = "Optimization not available"
                  /\ UNCHANGED requests
     ELSE /\ backendAvailable' = <<FALSE>>
          /\ UNCHANGED <<toast, requests>>
  /\ UNCHANGED <<selectedStudy, isOptimizing, activeStudyId, optimizationResults,
                 availableStudies>>
  /\ UNCHANGED notOptimization

\* onValueChange of the panel's study select: one of the items listed.
setSelectedStudy(value) ==
  /\ \E k \in DOMAIN availableStudies : availableStudies[k] = value
  /\ selectedStudy' = value
  /\ UNCHANGED <<backendAvailable, probe, toast, isOptimizing, activeStudyId,
                 optimizationResults, availableStudies, requests>>
  /\ UNCHANGED notOptimization

\* A handleCreateOptimization of the page that returns early only when the
\* probe has reported false.
MutOnCreateOptimization ==
  IF backendAvailable = <<FALSE>>
  THEN /\ toast' = "Backend not available"
       /\ UNCHANGED <<isOptimizing, requests>>
  ELSE /\ isOptimizing' = TRUE
       /\ requests' = Append(requests, started("create", "", "api"))
       /\ UNCHANGED toast

\* handleCreateOptimization of the page up to its first await.
onCreateOptimization ==
  IF backendAvailable # <<TRUE>>
  THEN /\ toast' = "Backend not available"
       /\ UNCHANGED <<isOptimizing, requests>>
  ELSE /\ isOptimizing' = TRUE
       /\ requests' = Append(requests, started("create", "", "api"))
       /\ UNCHANGED toast

\* handleRunOptimization and handleContinueOptimization of the page up to
\* their await: the same but for the wrapper and the toast.
onOptimization(handler, study_id) ==
  IF backendAvailable # <<TRUE>>
  THEN /\ toast' = "Backend not available"
       /\ UNCHANGED <<isOptimizing, activeStudyId, requests>>
  ELSE /\ isOptimizing' = TRUE
       /\ activeStudyId' = <<study_id>>
       /\ toast' = IF handler = "run" THEN "Optimization running"
                   ELSE "Continuing optimization"
       /\ requests' = Append(requests, started(handler, study_id, "api"))

\* handleLoadStudyResults of the page up to its await.
onLoadStudyResults(study_id) ==
  IF backendAvailable # <<TRUE>>
  THEN /\ toast' = "Backend not available"
       /\ UNCHANGED <<activeStudyId, requests>>
  ELSE /\ activeStudyId' = <<study_id>>
       /\ requests' = Append(requests, started("load", study_id, "api"))
       /\ UNCHANGED toast

\* if (activeStudyId) ... else if (selectedStudy) ...
studyToRun == IF activeStudyId # <<>> THEN activeStudyId[1] ELSE selectedStudy

\* The Create Optimization Study button is clicked.
handleCreateOptimization ==
  /\ ~isOptimizing
  /\ Len(requests) < MaxRequests
  /\ onCreateOptimization
  /\ UNCHANGED <<backendAvailable, probe, selectedStudy, activeStudyId,
                 optimizationResults, availableStudies>>
  /\ UNCHANGED notOptimization

\* One of the two Run Optimization buttons is clicked.
handleRunOptimization ==
  /\ ~((activeStudyId = <<>> /\ selectedStudy = "") \/ isOptimizing)
  /\ Len(requests) < MaxRequests
  /\ onOptimization("run", studyToRun)
  /\ UNCHANGED <<backendAvailable, probe, selectedStudy, optimizationResults,
                 availableStudies>>
  /\ UNCHANGED notOptimization

\* The Continue Optimization button is clicked.
handleContinueOptimization ==
  /\ ~((selectedStudy = "" /\ activeStudyId = <<>>) \/ isOptimizing)
  /\ Len(requests) < MaxRequests
  /\ onOptimization("continue", studyToRun)
  /\ UNCHANGED <<backendAvailable, probe, selectedStudy, optimizationResults,
                 availableStudies>>
  /\ UNCHANGED notOptimization

\* The Load Study Results button is clicked.
handleLoadStudyResults ==
  /\ ~(selectedStudy = "" \/ isOptimizing)
  /\ Len(requests) < MaxRequests
  /\ onLoadStudyResults(selectedStudy)
  /\ UNCHANGED <<backendAvailable, probe, selectedStudy, isOptimizing,
                 optimizationResults, availableStudies>>
  /\ UNCHANGED notOptimization

\* The handler call awaits the wrapper at the position given.
awaits(i, handler, pc) ==
  /\ i \in DOMAIN requests
  /\ requests[i].handler = handler
  /\ requests[i].pc = pc

\* createOptimizationStudy settles: handleCreateOptimization of the page
\* resumes, sets the active study and calls loadStudies, or runs its catch and
\* finally blocks.
createOptimizationStudySettles(i, answer, body, study_id) ==
  /\ awaits(i, "create", "api")
  /\ IF apiCall("createOptimizationStudy", answer, body).kind = "resolved"
     THEN /\ activeStudyId' = <<study_id>>
          /\ toast' = "Optimization study created"
          /\ requests' = [requests EXCEPT ![i].pc = "list"]
          /\ UNCHANGED isOptimizing
     ELSE /\ toast' = "Failed to create optimization"
          /\ isOptimizing' = FALSE
          /\ requests' = [requests EXCEPT ![i].pc = "rejected"]
          /\ UNCHANGED activeStudyId
  /\ UNCHANGED <<backendAvailable, probe, selectedStudy, optimizationResults,
                 availableStudies>>
  /\ UNCHANGED notOptimization

\* listOptimizationStudies settles: loadStudies sets the list or logs the
\* error, and its caller resumes: handleCreateOptimization in its finally
\* block, checkBackend at its toast.
loadStudies(i, answer, body, studies) ==
  /\ i \in DOMAIN requests
  /\ requests[i].pc = "list"
  /\ availableStudies' =
       IF apiCall("listOptimizationStudies", answer, body).kind = "resolved"
       THEN studies ELSE availableStudies
  /\ IF requests[i].handler = "create"
     THEN /\ isOptimizing' = FALSE
          /\ UNCHANGED toast
     ELSE /\ toast' = "Optimization service available"
          /\ UNCHANGED isOptimizing
  /\ requests' =
       [requests EXCEPT ![i].pc = apiCall("listOptimizationStudies", answer, body).kind]
  /\ UNCHANGED <<backendAvailable, probe, selectedStudy, activeStudyId,
                 optimizationResults>>
  /\ UNCHANGED notOptimization

\* The OptimizationResult the service answers the handler call with.
resultOf(i) == [ study_id |-> requests[i].study, request |-> i ]

\* A handleRunOptimization whose isOptimizing is cleared at the end of the
\* try block instead of in a finally block.
MutOptimizationSettles(i, outcome, completed, failed) ==
  /\ IF outcome.kind = "resolved"
     THEN /\ optimizationResults' = <<resultOf(i)>>
          /\ toast' = completed
          /\ isOptimizing' = FALSE
     ELSE /\ toast' = failed
          /\ UNCHANGED <<optimizationResults, isOptimizing>>
  /\ requests' = [requests EXCEPT ![i].pc = outcome.kind]
  /\ UNCHANGED <<backendAvailable, probe, selectedStudy, activeStudyId,
                 availableStudies>>
  /\ UNCHANGED notOptimization

\* The handler awaiting runOptimization or continueOptimization resumes in
\* its try block (setOptimizationResults) or in its catch block, then runs
\* its finally block.
optimizationSettles(i, outcome, completed, failed) ==
  /\ IF outcome.kind = "resolved"
     THEN /\ optimizationResults' = <<resultOf(i)>>
          /\ toast' = completed
     ELSE /\ toast' = failed
          /\ UNCHANGED optimizationResults
  /\ isOptimizing' = FALSE
  /\ requests' = [requests EXCEPT ![i].pc = outcome.kind]
  /\ UNCHANGED <<backendAvailable, probe, selectedStudy, activeStudyId,
                 availableStudies>>
  /\ UNCHANGED notOptimization

\* runOptimization settles.
runOptimizationSettles(i, answer, body) ==
  /\ awaits(i, "run", "api")
  /\ optimizationSettles(i, apiCall("runOptimization", answer, body),
                         "Optimization completed", "Failed to run optimization")

\* continueOptimization settles.
continueOptimizationSettles(i, answer, body) ==
  /\ awaits(i, "continue", "api")
  /\ optimizationSettles(i, apiCall("continueOptimization", answer, body),
                         "Additional optimization completed",
                         "Failed to continue optimization")

\* getOptimizationResults settles: handleLoadStudyResults resumes in its try
\* block or in its catch block.
getOptimizationResultsSettles(i, answer, body) ==
  /\ awaits(i, "load", "api")
  /\ IF apiCall("getOptimizationResults", answer, body).kind = "resolved"
     THEN /\ optimizationResults' = <<resultOf(i)>>
          /\ toast' = "Optimization results loaded"
     ELSE /\ toast' = "Failed to load optimization results"
          /\ UNCHANGED optimizationResults
  /\ requests' =
       [requests EXCEPT ![i].pc = apiCall("getOptimizationResults", answer, body).kind]
  /\ UNCHANGED <<backendAvailable, probe, selectedStudy, isOptimizing, activeStudyId,
                 availableStudies>>
  /\ UNCHANGED notOptimization

\* The request of a handler call settles.
requestSettles(i) ==
  \E answer \in Answers, body \in Bodies :
    \/ \E study_id \in StudyIds : createOptimizationStudySettles(i, answer, body, study_id)
    \/ \E studies \in StudyLists : loadStudies(i, answer, body, studies)
    \/ runOptimizationSettles(i, answer, body)
    \/ continueOptimizationSettles(i, answer, body)
    \/ getOptimizationResultsSettles(i, answer, body)

NextOptimization ==
  \/ \E answer \in Answers : checkBackendOptimization(answer)
  \/ \E value \in StudyIds : setSelectedStudy(value)
  \/ handleCreateOptimization
  \/ handleRunOptimization
  \/ handleContinueOptimization
  \/ handleLoadStudyResults
  \/ \E i \in 1..MaxRequests : requestSettles(i)

SpecOptimization == InitOptimization /\ [][NextOptimization]_vars

\* SpecOptimization where every request awaited settles in the end: fetch
\* settles each request it was given.
FairOptimization ==
  SpecOptimization /\ \A i \in 1..MaxRequests : WF_vars(requestSettles(i))

(***************************************************************************)
(* What the specification says of a run, stated over the page's history    *)
(***************************************************************************)
Positive(a) == FLt(Zero, a)

\* The data-model invariants of the input record.
Valid(p) ==
  /\ Positive(p.chamberPressure)
  /\ Positive(p.mixtureRatio)
  /\ Positive(p.grain.length_mm)
  /\ Positive(p.grain.outer_diameter_mm)
  /\ Positive(p.grain.initial_port_diameter_mm)
  /\ Positive(p.combustionChamber.length_mm)
  /\ Positive(p.combustionChamber.inner_diameter_mm)
  /\ Positive(p.nozzle.throat_diameter_mm)
  /\ Positive(p.nozzle.exit_diameter_mm)
  /\ Positive(p.nozzle.length_mm)
  /\ FLt(p.grain.initial_port_diameter_mm, p.grain.outer_diameter_mm)
  /\ FLe(p.nozzle.throat_diameter_mm, p.nozzle.exit_diameter_mm)

\* |a|
FAbs(a) == IF IsNaN(a) THEN NaN ELSE [a EXCEPT !.m = Abs(a.m)]

\* a and b agree to one part in a thousand.
Close(a, b) == FLe(FAbs(FSub(a, b)), FMul(Num(1, -3), FAbs(b)))

\* p and q differ at most in the named top-level field.
SameExcept(p, q, key) == [p EXCEPT ![key] = q[key]] = q

HasNaN(r) ==
  \/ IsNaN(r.thrust) \/ IsNaN(r.thrustCoefficient) \/ IsNaN(r.specificImpulse)
  \/ \E i \in 1..numPoints :
       \/ IsNaN(r.pressureData[i].x) \/ IsNaN(r.pressureData[i].y)
       \/ IsNaN(r.temperatureData[i].y) \/ IsNaN(r.velocityData[i].y)

SameMetrics(r, s) ==
  /\ r.thrust = s.thrust
  /\ r.specificImpulse = s.specificImpulse
  /\ r.chamberTemperature = s.chamberTemperature
  /\ r.exitPressure = s.exitPressure
  /\ r.massFlowRate = s.massFlowRate
  /\ r.thrustCoefficient = s.thrustCoefficient
  /\ r.pressureData = s.pressureData
  /\ r.temperatureData = s.temperatureData
  /\ r.velocityData = s.velocityData

\* C1: every result in the history was computed from an input that satisfies
\* the data-model invariants, i.e. an invalid input is rejected and yields no
\* result.
C1_InvalidInputRejected ==
  \A k \in DOMAIN results : Valid(results[k].parameters)

\* C2: no result returned for a valid input holds NaN in its thrust, thrust
\* coefficient, specific impulse or any profile value: a negative radicand is
\* reported as an error, never returned.
C2_NoNaNReturned ==
  \A k \in DOMAIN results : Valid(results[k].parameters) => ~HasNaN(results[k])

\* C3: two results computed from equal parameters have equal scalar metrics
\* and equal profiles, whatever identifier and timestamp each carries.
C3_MetadataNonInterference ==
  \A i, j \in DOMAIN results :
    results[i].parameters = results[j].parameters
      => SameMetrics(results[i], results[j])

\* Two results of equal parameters with different identifiers and timestamps.
C3_Witness ==
  \E i, j \in DOMAIN results :
    /\ results[i].parameters = results[j].parameters
    /\ results[i].id # results[j].id
    /\ results[i].timestamp # results[j].timestamp

\* C4: the computation is synchronous: no call is ever left waiting between
\* its invocation and its return, where other handlers could run.
C4_NoSuspendedCall == pending = <<>>

AxisOf(r, engineLength) ==
  /\ Len(r.pressureData) = numPoints
  /\ Len(r.temperatureData) = numPoints
  /\ Len(r.velocityData) = numPoints
  /\ \A i \in 1..numPoints :
       /\ r.temperatureData[i].x = r.pressureData[i].x
       /\ r.velocityData[i].x = r.pressureData[i].x
       /\ r.pressureData[i].x = SampleX(i - 1, engineLength)
  /\ r.pressureData[1].x = Zero
  /\ r.pressureData[numPoints].x = engineLength
  /\ \A i \in 1..(numPoints - 1) : FLt(r.pressureData[i].x, r.pressureData[i + 1].x)

\* C5: every result has 50 samples per series, all three series share the
\* axial positions x_i = i/49 * (chamber length + nozzle length), from 0 to
\* the engine length, strictly increasing.
C5_ProfileAxis ==
  \A k \in DOMAIN results :
    AxisOf(results[k],
           FDiv(FAdd(results[k].parameters.combustionChamber.length_mm,
                     results[k].parameters.nozzle.length_mm),
                FromInt(1000)))

\* C6: in every result the pressure profile's first sample equals the input
\* chamber pressure (MPa).
C6_FirstSamplePressure ==
  \A k \in DOMAIN results :
    FEq(results[k].pressureData[1].y, results[k].parameters.chamberPressure)

\* C7: of two results that differ only in a valid chamber pressure, the one
\* of the higher pressure has the strictly higher thrust.
C7_ThrustIncreasing ==
  \A i, j \in DOMAIN results :
    ( /\ SameExcept(results[i].parameters, results[j].parameters, "chamberPressure")
      /\ Valid(results[i].parameters)
      /\ Valid(results[j].parameters)
      /\ FLt(results[i].parameters.chamberPressure, results[j].parameters.chamberPressure) )
      => FLt(results[i].thrust, results[j].thrust)

\* The mixture ratio written in the temperature formula.
OF_opt(v) == IF v = "tuned" THEN Num(21, -1) ELSE Num(25, -1)

\* The mixture ratio at which the temperature formula peaks: the linear term
\* moves the vertex of the parabola to OF_opt + k2 / (2 k3).
PeakMixtureRatio(v) == IF v = "tuned" THEN Num(23, -1) ELSE Num(29, -1)

\* Of two results that differ only in mixture ratio, temperature rises with
\* the mixture ratio up to peak and falls beyond it.
UnimodalAbout(peak) ==
  \A i, j \in DOMAIN results :
    ( /\ SameExcept(results[i].parameters, results[j].parameters, "mixtureRatio")
      /\ FLt(results[i].parameters.mixtureRatio, results[j].parameters.mixtureRatio) )
      => /\ FLe(results[j].parameters.mixtureRatio, peak)
              => FLt(results[i].chamberTemperature, results[j].chamberTemperature)
         /\ FLe(peak, results[i].parameters.mixtureRatio)
              => FLt(results[j].chamberTemperature, results[i].chamberTemperature)

\* C8: chamber temperature is unimodal in mixture ratio, rising up to the
\* vertex of the temperature formula (2.3 tuned, 2.9 generic) and falling
\* beyond it.
C8_TemperatureUnimodal == UnimodalAbout(PeakMixtureRatio(variant))

\* C8 as stated: the peak is at OF_opt (2.1 tuned, 2.5 generic).
C8_PeakAtOFopt == UnimodalAbout(OF_opt(variant))

\* Two results that differ only in mixture ratio, one at OF_opt and one
\* between OF_opt and the vertex.
C8_Witness ==
  \E i, j \in DOMAIN results :
    /\ SameExcept(results[i].parameters, results[j].parameters, "mixtureRatio")
    /\ results[i].parameters.mixtureRatio = OF_opt(variant)
    /\ FLt(results[i].parameters.mixtureRatio, results[j].parameters.mixtureRatio)
    /\ FLe(results[j].parameters.mixtureRatio, PeakMixtureRatio(variant))

\* The standard thrust coefficient: divergence * ideal term of P_exit / P_chamber
\* + expansion ratio * (P_exit - P_ambient) / P_chamber.
standardThrustCoefficient(gam, exitPressure, chamberPressure, expansionRatio, divergence) ==
  FAdd(FMul(FSqrt(idealRadicand(gam, FDiv(exitPressure, chamberPressure))), divergence),
       FDiv(FMul(expansionRatio, FSub(exitPressure, ambientPressure)), chamberPressure))

StandardCf(r, gam, divergence) ==
  standardThrustCoefficient(
    gam, r.exitPressure, FMul(r.parameters.chamberPressure, FromInt(1000)),
    FDiv(CircleArea(r.parameters.nozzle.exit_diameter_mm),
         CircleArea(r.parameters.nozzle.throat_diameter_mm)),
    divergence)

\* C9: every result's thrust coefficient is the standard formula, with or
\* without the 0.98 divergence factor on the ideal term.
C9_StandardThrustCoefficient ==
  \A k \in DOMAIN results :
    \/ Close(results[k].thrustCoefficient,
             StandardCf(results[k], IF variant = "tuned" THEN gamma ELSE gammaGeneric, One))
    \/ Close(results[k].thrustCoefficient,
             StandardCf(results[k], IF variant = "tuned" THEN gamma ELSE gammaGeneric,
                        Num(98, -2)))

\* C10: every result's thrust is Cf * (chamber pressure in kPa) * (throat
\* area in m^2), and the default scenario's thrust lies between 1 and 100 kN.
C10_ThrustInKilonewtons ==
  \A k \in DOMAIN results :
    /\ Close(results[k].thrust,
             FMul(FMul(results[k].thrustCoefficient,
                       FMul(results[k].parameters.chamberPressure, FromInt(1000))),
                  CircleArea(results[k].parameters.nozzle.throat_diameter_mm)))
    /\ results[k].parameters = defaultParameters
         => FLt(One, results[k].thrust) /\ FLt(results[k].thrust, FromInt(100))

\* a and b are the same quantity: equal up to rounding, or both undefined.
Agree(a, b) == (IsNaN(a) /\ IsNaN(b)) \/ Close(a, b)

\* The thrust coefficient either evolution computes from an expansion ratio.
thrustCoefficientOf(v, chamberPressure, exitPressure, expansionRatio) ==
  IF v = "tuned"
  THEN calculateThrustCoefficient(gamma, FDiv(ambientPressure, chamberPressure),
                                  expansionRatio)
  ELSE thrustCoefficientGeneric(gammaGeneric, exitPressure, chamberPressure,
                                expansionRatio)

\* Result r, computed with the locals l at chamber pressure pc (kPa), uses
\* the expansion ratio eps in its exit pressure, its thrust coefficient and
\* the local area ratio of its last profile sample.
UsesExpansionRatio(v, r, l, gam, pc, eps) ==
  /\ Agree(l.expansionRatio, eps)
  /\ Agree(r.exitPressure, FMul(pc, FPow(FDiv(One, eps), ExpansionExponent(gam))))
  /\ Agree(r.thrustCoefficient, thrustCoefficientOf(v, pc, r.exitPressure, eps))
  /\ Agree(r.pressureData[numPoints].y, nozzlePressure(gam, pc, eps))

\* C11: every result's exit pressure, thrust coefficient and last local area
\* ratio use one expansion ratio, (exit diameter / throat diameter)^2 of the
\* nozzle geometry, and two results whose inputs differ only in the
\* nozzleExpansionRatio or throatDiameter field have equal metrics.
C11_ExpansionRatioFromGeometry ==
  /\ \A k \in DOMAIN results :
       UsesExpansionRatio(
         variant, results[k], engine[variant][results[k].parameters],
         IF variant = "tuned" THEN gamma ELSE gammaGeneric,
         FMul(results[k].parameters.chamberPressure, FromInt(1000)),
         FPow(FDiv(results[k].parameters.nozzle.exit_diameter_mm,
                   results[k].parameters.nozzle.throat_diameter_mm), Two))
  /\ \A i, j \in DOMAIN results :
       [results[i].parameters EXCEPT
          !.nozzleExpansionRatio = results[j].parameters.nozzleExpansionRatio,
          !.throatDiameter = results[j].parameters.throatDiameter]
         = results[j].parameters
         => SameMetrics(results[i], results[j])

\* Two results whose inputs differ in the nozzleExpansionRatio field only,
\* one of them with a value that is not the geometry's (exit / throat)^2.
C11_Witness ==
  \E i, j \in DOMAIN results :
    /\ SameExcept(results[i].parameters, results[j].parameters, "nozzleExpansionRatio")
    /\ results[i].parameters.nozzleExpansionRatio = FromInt(16)
    /\ results[j].parameters.nozzleExpansionRatio = FromInt(8)

\* p is q with the conical contour where q has the bell contour.
ConicalOf(p, q) ==
  /\ p.nozzle.contour_type = "conical"
  /\ q.nozzle.contour_type = "bell"
  /\ [p EXCEPT !.nozzle.contour_type = "bell"] = q

CharacteristicLengthRatio(p) ==
  FDiv(FDiv(FDiv(p.combustionChamber.chamber_volume_cc, FromInt(1000000)),
            CircleArea(p.nozzle.throat_diameter_mm)),
       L_star)

\* e is ratio clamped to the band [0.85, 0.98].
ClampedToBand(e, ratio) ==
  /\ FLe(Num(85, -2), e)
  /\ FLe(e, Num(98, -2))
  /\ FLt(ratio, Num(85, -2)) => e = Num(85, -2)
  /\ FLt(Num(98, -2), ratio) => e = Num(98, -2)
  /\ (FLe(Num(85, -2), ratio) /\ FLe(ratio, Num(98, -2))) => Agree(e, ratio)

\* temperature is theoretical * e and lies in [0.85, 0.98] * theoretical.
ScaledByEfficiency(temperature, theoretical, e) ==
  /\ Agree(temperature, FMul(theoretical, e))
  /\ FLe(FMul(Num(85, -2), theoretical), temperature)
  /\ FLe(temperature, FMul(Num(98, -2), theoretical))

ConsistentSplit(total, fuel, mixtureRatio) ==
  /\ Agree(total, FAdd(fuel, FMul(fuel, mixtureRatio)))
  /\ Agree(total, FMul(fuel, FAdd(One, mixtureRatio)))
  /\ FLe(Zero, total)

\* C14: in every result the reported mass flow rate is the fuel mass flow
\* plus the oxidizer mass flow (fuel mass flow * mixture ratio), that is
\* fuel mass flow * (1 + mixture ratio), and is not negative.
C14_MassFlowSplit ==
  \A k \in DOMAIN results :
    ConsistentSplit(results[k].massFlowRate,
                    engine[variant][results[k].parameters].fuelMassFlowRate,
                    results[k].parameters.mixtureRatio)

\* Sample i of r lies in the chamber segment.
InChamber(r, i) ==
  FLt(r.pressureData[i].x,
      FDiv(r.parameters.combustionChamber.length_mm, FromInt(1000)))

\* 1 - 0.15 * (1 - (1 - x / chamber length)^2)
QuadraticLoss(x, chamberLength) ==
  FSub(One,
       FMul(Num(15, -2),
            FSub(One, FPow(FSub(One, FDiv(x, chamberLength)), Two))))

\* The pressure of chamber sample i of r is within [0.85, 1] of the chamber
\* pressure and not above the sample before it.
BoundedLoss(r, i, chamberPressure) ==
  /\ FLe(FMul(Num(85, -2), chamberPressure), r.pressureData[i].y)
  /\ FLe(r.pressureData[i].y, chamberPressure)
  /\ i > 1 => FLe(r.pressureData[i].y, r.pressureData[i - 1].y)

\* C19: in every result, every sample of the chamber segment has a pressure
\* between 0.85 x chamber pressure and the chamber pressure, not above the
\* sample before it, and, in the propellant-tuned model, equal to chamber
\* pressure x (1 - 0.15 x (1 - (1 - x / chamber length)^2)).
C19_ChamberPressureLoss ==
  \A k \in DOMAIN results :
    \A i \in 1..numPoints :
      InChamber(results[k], i) =>
        /\ BoundedLoss(results[k], i, results[k].parameters.chamberPressure)
        /\ variant = "tuned" =>
             Agree(results[k].pressureData[i].y,
                   FMul(results[k].parameters.chamberPressure,
                        QuadraticLoss(
                          results[k].pressureData[i].x,
                          FDiv(results[k].parameters.combustionChamber.length_mm,
                               FromInt(1000)))))

\* A tuned result with a chamber sample beyond the injector face.
C19_Witness ==
  /\ variant = "tuned"
  /\ \E k \in DOMAIN results : InChamber(results[k], 2)

\* From sample i to sample i + 1 of r pressure and temperature do not
\* increase and velocity does not decrease.
MonotoneStep(r, i) ==
  /\ FLe(r.pressureData[i + 1].y, r.pressureData[i].y)
  /\ FLe(r.temperatureData[i + 1].y, r.temperatureData[i].y)
  /\ FLe(r.velocityData[i].y, r.velocityData[i + 1].y)

\* C20: in every result of a valid input, over every pair of consecutive
\* samples, the chamber-to-nozzle pair included, pressure and temperature do
\* not increase and velocity does not decrease.
C20_MonotoneProfiles ==
  \A k \in DOMAIN results :
    Valid(results[k].parameters) =>
      \A i \in 1..(numPoints - 1) : MonotoneStep(results[k], i)

\* Records that refer to one nested object read one value.
SharedObjectsAgree ==
  \A c \in Categories :
    /\ \A k \in DOMAIN results :
         objects.results[k][c] = objects.panel[c]
           => results[k].parameters[c] = parameters[c]
    /\ \A i \in DOMAIN pending :
         objects.pending[i][c] = objects.panel[c] => pending[i][c] = parameters[c]

\* A step keeps the parameters of every history entry and of the pending
\* call's argument, and a step that returns a result keeps the panel's record
\* and stores the argument's values.
SnapshotStep ==
  /\ \A k \in DOMAIN results :
       k \in DOMAIN results' /\ results'[k].parameters = results[k].parameters
  /\ (pending # <<>> /\ pending' # <<>>) => pending' = pending
  /\ Len(results') > Len(results) =>
       /\ parameters' = parameters
       /\ results'[Len(results')].parameters = pending[1]

\* C18: a simulation does not change its input record, and the parameters of
\* every history entry, nested sub-records included, stay what they were when
\* the entry was made, through every later edit in the panel and every later
\* run.
C18_ParametersSnapshot == []SharedObjectsAgree /\ [][SnapshotStep]_vars

\* A history entry whose grain, chamber or nozzle object the panel has since
\* replaced by an edited one, followed by a later entry.
C18_Witness ==
  /\ Len(results) = 2
  /\ \E c \in Categories :
       /\ objects.results[1][c] # objects.panel[c]
       /\ results[1].parameters[c] # parameters[c]
       /\ objects.results[2][c] = objects.panel[c]

\* C15: a call of runAdvancedSimulation does not await the service beyond
\* the caller's timeout, and when it ends with an error the error is the one
\* that tells the caller the service is unavailable.
C15_AdvancedCallTerminates ==
  /\ advanced.pc \in {"fetch", "data", "errorData"} => advanced.waited <= Timeout
  /\ advanced.pc = "threw" => advanced.error = "ServiceUnavailableError"

\* C16: the probe's promise is never rejected; once it has settled, the page
\* holds backendAvailable = true exactly when the service answered with an
\* OK status and false when it answered otherwise or could not be reached;
\* backendAvailable is null only while the probe is pending.
C16_ProbeNeverFails ==
  /\ probe.promise # "rejected"
  /\ probe.promise = "resolved" => backendAvailable = <<probe.answer = "ok">>
  /\ probe.answer \in {"notOk", "unreachable"} => backendAvailable = <<FALSE>>
  /\ backendAvailable = <<>> => probe.promise \in {"pending", "unmounted"}

\* The service could not be reached and the page holds false.
C16_Witness ==
  /\ probe.answer = "unreachable"
  /\ backendAvailable = <<FALSE>>

\* A step leaves the history as it is, and then a run that ends in it leaves
\* the selection as it is; or a run ends in it, one result is added at the
\* end of the history and that result is selected.
HistoryStep ==
  \/ /\ results' = results
     /\ (isSimulating /\ ~isSimulating') => selectedResult' = selectedResult
  \/ /\ isSimulating /\ ~isSimulating'
     /\ Len(results') = Len(results) + 1
     /\ SubSeq(results', 1, Len(results)) = results
     /\ selectedResult' = <<results'[Len(results')]>>

\* C17: the history is append-only: a simulation that succeeds appends one
\* result and selects it, a simulation that fails changes neither the
\* history nor the selection, and no step removes, reorders or replaces an
\* entry.
C17_AppendOnlyHistory == [][HistoryStep]_vars

\* Two simulations have succeeded and the earlier result has been selected
\* again.
C17_Witness ==
  /\ Len(results) = 2
  /\ selectedResult = <<results[1]>>
  /\ results[1] # results[2]

\* Sample i of r lies in the nozzle segment of the run whose locals are l.
InNozzle(r, i, l) == ~FLt(r.pressureData[i].x, l.throatPosition)

\* The local area ratio the loop uses at sample i of r.
AreaRatioAt(contour_type, r, i, l) ==
  localAreaRatio(contour_type, nozzleRatioAt(r.pressureData[i].x, l), l.expansionRatio)

\* 1 + (expansion ratio - 1) x (x - chamber length) / nozzle length
LinearGrowth(x, l) ==
  FAdd(One,
       FDiv(FMul(FSub(l.expansionRatio, One), FSub(x, l.throatPosition)),
            FSub(l.engineLength, l.throatPosition)))

\* From the throat to the exit the area ratio a of the contour goes from 1
\* to the expansion ratio without decreasing in x, and stays on or above
\* the cone's area ratio c, touching it at the throat and the exit only.
\* Index numPoints + 1 of a and c is the throat position, the other indices
\* are the samples of r.
GrowthCurve(r, l, a, c) ==
  /\ a[numPoints + 1] = One
  /\ Agree(a[numPoints], l.expansionRatio)
  /\ \A i \in 1..numPoints :
       InNozzle(r, i, l) =>
         /\ Agree(c[i], LinearGrowth(r.pressureData[i].x, l))
         /\ FLe(c[i], a[i])
         /\ (a # c /\ FEq(c[i], a[i])) =>
               r.pressureData[i].x \in {l.throatPosition, l.engineLength}
         /\ (i > 1 /\ InNozzle(r, i - 1, l)) =>
               /\ FLe(r.pressureData[i - 1].x, r.pressureData[i].x) => FLe(a[i - 1], a[i])
               /\ FLe(r.pressureData[i].x, r.pressureData[i - 1].x) => FLe(a[i], a[i - 1])

\* The contour the evolution v of the engine reads from the parameters p.
ContourRead(v, p) == IF v = "tuned" THEN p.nozzle.contour_type ELSE "conical"

\* The area ratios of contour_type at the samples of r and, at index
\* numPoints + 1, at the throat position.
AreaRatios(contour_type, r, l) ==
  SubSeq([ i \in 1..(numPoints + 1) |->
             IF i = numPoints + 1
             THEN localAreaRatio(contour_type, nozzleRatioAt(l.throatPosition, l),
                                 l.expansionRatio)
             ELSE AreaRatioAt(contour_type, r, i, l) ],
         1, numPoints + 1)

\* C21: in every result, over the samples of the nozzle segment, the local
\* area ratio is 1 at the throat position, the full expansion ratio at the
\* last sample and non-decreasing in x; the conical area ratio is linear in
\* the nozzle position, and the bell area ratio of the propellant-tuned
\* model is at every sample at least the conical one, equal to it only at
\* the throat and at the exit.
C21_AreaRatioGrowth ==
  \A k \in DOMAIN results :
    GrowthCurve(results[k], engine[variant][results[k].parameters],
                AreaRatios(ContourRead(variant, results[k].parameters), results[k],
                           engine[variant][results[k].parameters]),
                AreaRatios("conical", results[k],
                           engine[variant][results[k].parameters]))

\* The last samples of the pressure and velocity profiles of r are the
\* scalar exit pressure (kPa, the profile being in MPa) and the exit
\* velocity specificImpulse x g0.
MeetsExit(r) ==
  /\ Agree(FMul(r.pressureData[numPoints].y, FromInt(1000)), r.exitPressure)
  /\ Agree(r.velocityData[numPoints].y, FMul(r.specificImpulse, g0))

\* C22: in every result the last sample of the pressure profile, converted
\* from MPa to kPa, equals the exit pressure, and the last sample of the
\* velocity profile equals the exit velocity from which specific impulse is
\* derived, specific impulse x g0.
C22_ProfilesMeetExit == \A k \in DOMAIN results : MeetsExit(results[k])

\* C23: on the simulator page isSimulating is true exactly while a call of
\* runSimulation is outstanding, and whenever it is true it becomes false
\* again once the call has settled, with a result or with an error, so the
\* Run button is enabled again.
C23_BusyWhileOutstanding ==
  /\ [](isSimulating <=> pending # <<>>)
  /\ isSimulating ~> ~isSimulating

\* A run has failed and the Run button is enabled again.
C23_Witness == toast = "Simulation failed" /\ ~isSimulating /\ pending = <<>>

\* C24: on the simulator page selectedResult is null or an element of the
\* results history, and it is null only while the history is empty.
C24_SelectionInHistory ==
  /\ selectedResult # <<>> => \E k \in DOMAIN results : selectedResult = <<results[k]>>
  /\ selectedResult = <<>> => results = <<>>

\* A run has failed after an earlier one succeeded: the earlier result is
\* still selected.
C24_Witness ==
  /\ toast = "Simulation failed"
  /\ Len(results) = 1
  /\ selectedResult = <<results[1]>>

\* From one configuration to the next the objectives stay as they are, or
\* one of them changes, or one is appended, or, when more than one is held,
\* exactly one is removed and the others keep their order.
ObjectiveStep ==
  \/ Len(config'.objectives) = Len(config.objectives)
  \/ /\ Len(config'.objectives) = Len(config.objectives) + 1
     /\ SubSeq(config'.objectives, 1, Len(config.objectives)) = config.objectives
  \/ /\ Len(config.objectives) > 1
     /\ \E i \in DOMAIN config.objectives :
          config'.objectives =
            SubSeq(config.objectives, 1, i - 1)
              \o SubSeq(config.objectives, i + 1, Len(config.objectives))

\* C28: the optimization panel's configuration always holds at least one
\* objective; removeObjective leaves a one-element list as it is and
\* otherwise removes exactly the objective at the given index, the others
\* keeping their order.
C28_ObjectivesNeverEmpty ==
  /\ [](Len(config.objectives) >= 1)
  /\ [][ObjectiveStep]_vars

\* The first of the two default objectives has been removed: the second is
\* the only one left.
C28_Witness == config.objectives = <<DEFAULT_CONFIG.objectives[2]>>

\* The largest value of the metric over the first count trials.
MaxOver(metric, trials_history, count) ==
  CHOOSE v \in { trials_history[i].values[metric] : i \in 1..count } :
    \A i \in 1..count : FLe(trials_history[i].values[metric], v)

\* C29: in the convergence data rendered for a trial history, bestThrust and
\* bestIsp at trial k are the maximum thrust and the maximum specific impulse
\* over the trials 1..k, zero and negative values included.
C29_RunningBest ==
  call.wrapper \in ResultWrappers =>
    \A k \in DOMAIN call.convergenceData :
      /\ call.convergenceData[k].bestThrust = MaxOver("thrust", call.trials_history, k)
      /\ call.convergenceData[k].bestIsp = MaxOver("specificImpulse", call.trials_history, k)

\* The outcome the wrappers are to have for an answer: a value for an OK
\* response only, an Error with the detail or the fallback message for
\* another response, the network failure rethrown.
ExpectedOutcome(c) ==
  /\ c.outcome.kind = "resolved" => c.answer = "ok"
  /\ c.answer = "notOk" =>
       /\ c.outcome.kind = "rejected"
       /\ c.outcome.error = "Error"
       /\ c.outcome.message = IF c.body = "detail" THEN "detail" ELSE fallbackMessage(c.wrapper)
  /\ c.answer = "unreachable" =>
       c.outcome.kind = "rejected" /\ c.outcome.error = "TypeError"

\* C30: every wrapper returns a value for an OK response only, rejects for
\* every other response with an Error whose message is the body's detail or,
\* without a detail, the wrapper's fallback message, and rethrows a network
\* failure.
C30_WrapperOutcomes == call.wrapper # "none" => ExpectedOutcome(call)


(***************************************************************************)
(* What the specification says of the Optimization page                    *)
(***************************************************************************)

\* The handler calls that produce an OptimizationResult.
ResultRequests ==
  { i \in DOMAIN requests : requests[i].handler \in {"run", "continue", "load"} }

\* The result-producing handler call started last.
LastResultRequest == CHOOSE i \in ResultRequests : \A j \in ResultRequests : j <= i

\* Several result-producing calls were made, every one succeeded, and no
\* study was created meanwhile.
AllSucceeded ==
  /\ Cardinality(ResultRequests) >= 2
  /\ \A i \in ResultRequests : requests[i].pc = "resolved"
  /\ \A i \in DOMAIN requests : requests[i].handler # "create"

\* C25: once result-producing requests that overlapped have all succeeded, the
\* results displayed are those of the request started last and are of the
\* study in activeStudyId: a slower response of an earlier request does not
\* replace them.
C25_LatestResultsShown ==
  AllSucceeded =>
    /\ optimizationResults = <<resultOf(LastResultRequest)>>
    /\ activeStudyId = <<optimizationResults[1].study_id>>


\* A step of a handler of the page that returned at its guard.
ReturnsAtGuard ==
  UNCHANGED <<requests, isOptimizing, activeStudyId, optimizationResults>>

\* C26: the page sends no request unless the probe has reported the backend
\* available: while backendAvailable is false or still null, create, run,
\* continue and load return without a call of the API and leave isOptimizing,
\* activeStudyId and optimizationResults as they were.
C26_NoRequestUnlessAvailable ==
  /\ [](backendAvailable # <<TRUE>> =>
          /\ requests = <<>>
          /\ ~isOptimizing
          /\ activeStudyId = <<>>
          /\ optimizationResults = <<>>)
  /\ [][backendAvailable' # <<TRUE>> => ReturnsAtGuard]_vars

\* Create was clicked while the probe had not answered yet.
C26_Witness ==
  /\ backendAvailable = <<>>
  /\ toast = "Backend not available"
  /\ requests = <<>>


\* The handler calls that set isOptimizing and have not finished.
Optimizing ==
  { i \in DOMAIN requests :
      /\ requests[i].handler \in {"create", "run", "continue"}
      /\ requests[i].pc \in {"api", "list"} }

\* The handler call finishes in this step.
Finishes(i) ==
  /\ i \in Optimizing
  /\ requests'[i].pc \in {"resolved", "rejected"}

\* A run or continue request fails in this step.
Fails(i) ==
  /\ i \in DOMAIN requests
  /\ requests[i].handler \in {"run", "continue"}
  /\ requests[i].pc = "api"
  /\ requests'[i].pc = "rejected"

=============================================================================
